---- MODULE Spec2Model ----
(***************************************************************************)
(* ExpressionWhizz++: the variable dictionary (cdict.c, carried in         *)
(* src/tokenize.c), the tokenizer and the token list (src/tokenize.c), the *)
(* recursive-descent parser (src/parse.c) and the expression-tree          *)
(* evaluator (src/expr_tree.c).                                            *)
(***************************************************************************)
EXTENDS Integers, Sequences, FiniteSets, TLC

(***************************************************************************)
(* Bounds of the model.                                                    *)
(***************************************************************************)
\* largest numerator / denominator of a double the model tracks exactly
MaxMag == 1024
\* largest number of entries deleted from a dictionary in its lifetime
MaxTombstones == 3
\* longest token list handed to Parse beside the named examples: MaxLen
\* tokens without parentheses and "=", MaxLen - 1 tokens of any kind, and
\* s1 = s2 = followed by MaxLen - 2 tokens of any kind
MaxLen == 5
\* largest number of nodes of a tree handed directly to ET_evaluate
MaxNodes == 5

\* longest token list of the peek-and-consume test
MaxStream == 3

\* most calls of TOK_consume on an exhausted list
MaxExtraConsumes == 3

(***************************************************************************)
(* Doubles.  A double is a pair <<n, d>>: a finite value n/d in lowest     *)
(* terms with d >= 1, +0 as <<0, 1>>, -0 as <<0, -1>>, the infinities      *)
(* <<1, 0>> and <<-1, 0>>, NaN <<0, 0>>.  Only values a double holds       *)
(* exactly are tracked (d a power of two, |n| and d at most MaxMag);       *)
(* every other result is Unmodelled, and an evaluation that meets it is    *)
(* outside the model's bounds.                                             *)
(***************************************************************************)
NAN == <<0, 0>>
PosInf == <<1, 0>>
NegInf == <<-1, 0>>
Unmodelled == <<2, 0>>
PosZero == <<0, 1>>
NegZero == <<0, -1>>
One == <<1, 1>>

Num(n) == IF n = 0 THEN PosZero ELSE <<n, 1>>

isnan(v) == v = NAN

IsInf(v) == v = PosInf \/ v = NegInf

IsZero(v) == v = PosZero \/ v = NegZero

IsFinite(v) == v[2] # 0

Abs(n) == IF n < 0 THEN -n ELSE n

\* -1 for a value whose sign bit is set, 1 otherwise
SignOf(v) == IF v[1] < 0 \/ v = NegZero THEN -1 ELSE 1

Numer(v) == v[1]

Denom(v) == IF v[2] < 0 THEN 1 ELSE v[2]

RECURSIVE GCD(_, _)
GCD(a, b) == IF b = 0 THEN a ELSE GCD(b, a % b)

RECURSIVE IsPow2(_)
IsPow2(n) == IF n = 1 THEN TRUE ELSE IF n % 2 # 0 THEN FALSE ELSE IsPow2(n \div 2)

SignedZero(s) == IF s < 0 THEN NegZero ELSE PosZero

SignedInf(s) == IF s < 0 THEN NegInf ELSE PosInf

\* the double n/d (n # 0, d >= 1), or Unmodelled when it is not held exactly
Mk(n, d) ==
  LET g == GCD(Abs(n), d)
      nn == n \div g
      dd == d \div g
  IN IF Abs(nn) <= MaxMag /\ dd <= MaxMag /\ IsPow2(dd) THEN <<nn, dd>> ELSE Unmodelled

Neg(x) ==
  IF x = Unmodelled \/ x = NAN THEN x
  ELSE IF IsInf(x) THEN <<-x[1], 0>>
  ELSE IF IsZero(x) THEN <<0, -x[2]>>
  ELSE <<-x[1], x[2]>>

Add(x, y) ==
  IF x = Unmodelled \/ y = Unmodelled THEN Unmodelled
  ELSE IF isnan(x) \/ isnan(y) THEN NAN
  ELSE IF IsInf(x) /\ IsInf(y) THEN (IF x = y THEN x ELSE NAN)
  ELSE IF IsInf(x) THEN x
  ELSE IF IsInf(y) THEN y
  ELSE IF IsZero(x) /\ IsZero(y) THEN (IF x = NegZero /\ y = NegZero THEN NegZero ELSE PosZero)
  ELSE LET n == (Numer(x) * Denom(y)) + (Numer(y) * Denom(x))
       IN IF n = 0 THEN PosZero ELSE Mk(n, Denom(x) * Denom(y))

Sub(x, y) == Add(x, Neg(y))

Mul(x, y) ==
  IF x = Unmodelled \/ y = Unmodelled THEN Unmodelled
  ELSE IF isnan(x) \/ isnan(y) THEN NAN
  ELSE IF (IsInf(x) /\ IsZero(y)) \/ (IsZero(x) /\ IsInf(y)) THEN NAN
  ELSE IF IsInf(x) \/ IsInf(y) THEN SignedInf(SignOf(x) * SignOf(y))
  ELSE IF IsZero(x) \/ IsZero(y) THEN SignedZero(SignOf(x) * SignOf(y))
  ELSE Mk(Numer(x) * Numer(y), Denom(x) * Denom(y))

Div(x, y) ==
  IF x = Unmodelled \/ y = Unmodelled THEN Unmodelled
  ELSE IF isnan(x) \/ isnan(y) THEN NAN
  ELSE IF (IsInf(x) /\ IsInf(y)) \/ (IsZero(x) /\ IsZero(y)) THEN NAN
  ELSE IF IsInf(x) \/ IsZero(y) THEN SignedInf(SignOf(x) * SignOf(y))
  ELSE IF IsInf(y) \/ IsZero(x) THEN SignedZero(SignOf(x) * SignOf(y))
  ELSE Mk(SignOf(y) * Numer(x) * Denom(y), Denom(x) * Abs(Numer(y)))

\* x^k for a finite non-zero x and an integer k >= 1
RECURSIVE PowInt(_, _)
PowInt(x, k) ==
  IF Abs(Numer(x)) = 1 /\ Denom(x) = 1 THEN (IF k % 2 = 1 THEN x ELSE One)
  ELSE IF k > 31 THEN Unmodelled
  ELSE IF k = 1 THEN x
  ELSE Mul(x, PowInt(x, k - 1))

IsInteger(y) == IsFinite(y) /\ Denom(y) = 1

IsOddInteger(y) == IsInteger(y) /\ Numer(y) % 2 = 1

\* |x| < 1
MagBelowOne(x) == IsFinite(x) /\ Abs(Numer(x)) < Denom(x)

\* pow of <math.h> (C99 Annex F.9.4.4)
pow(x, y) ==
  IF x = Unmodelled \/ y = Unmodelled THEN Unmodelled
  ELSE IF IsZero(y) THEN One
  ELSE IF x = One THEN One
  ELSE IF isnan(x) \/ isnan(y) THEN NAN
  ELSE IF IsInf(y) THEN
         (IF x = <<-1, 1>> THEN One
          ELSE IF MagBelowOne(x) THEN (IF y = NegInf THEN PosInf ELSE PosZero)
          ELSE (IF y = NegInf THEN PosZero ELSE PosInf))
  ELSE IF IsZero(x) THEN
         (IF SignOf(y) < 0
          THEN (IF IsOddInteger(y) THEN SignedInf(SignOf(x)) ELSE PosInf)
          ELSE (IF IsOddInteger(y) THEN x ELSE PosZero))
  ELSE IF x = PosInf THEN (IF SignOf(y) < 0 THEN PosZero ELSE PosInf)
  ELSE IF x = NegInf THEN
         (IF SignOf(y) < 0
          THEN (IF IsOddInteger(y) THEN NegZero ELSE PosZero)
          ELSE (IF IsOddInteger(y) THEN NegInf ELSE PosInf))
  ELSE IF IsInteger(y) THEN
         (IF Numer(y) > 0 THEN PowInt(x, Numer(y)) ELSE Div(One, PowInt(x, -Numer(y))))
  ELSE IF SignOf(x) < 0 THEN NAN
  ELSE Unmodelled

(***************************************************************************)
(* Strings are sequences of character codes.                               *)
(***************************************************************************)
Str_a == <<97>>
Str_b == <<98>>
Str_i == <<105>>
Str_q == <<113>>
Str_x == <<120>>
Str_y == <<121>>
Str_pi == <<112, 105>>

\* the NULL key pointer of an empty slot
NULLKEY == <<-1>>

\* the absent tree
NULL == <<>>

(***************************************************************************)
(* The dictionary (cdict.c).                                               *)
(***************************************************************************)
DEFAULT_DICT_CAPACITY == 8

INVALID_VALUE == NAN

\* unsigned arithmetic is kept modulo 2^16: every capacity divides 2^16, so
\* x % capacity is the same as with the 32-bit unsigned int of the source
HashMod == 65536

RECURSIVE Xor(_, _)
Xor(a, b) ==
  IF a = 0 THEN b
  ELSE IF b = 0 THEN a
  ELSE (((a % 2) + (b % 2)) % 2) + (2 * Xor(a \div 2, b \div 2))

RECURSIVE HashFold(_, _, _)
HashFold(x, str, i) ==
  IF i > Len(str) THEN x
  ELSE HashFold(Xor(((1000003 % HashMod) * x) % HashMod, str[i]), str, i + 1)

CD_hash(str, capacity) ==
  IF Len(str) = 0 THEN 0
  ELSE Xor(HashFold((str[1] * 128) % HashMod, str, 1), Len(str)) % capacity

EmptySlot == [status |-> "SLOT_UNUSED", key |-> NULLKEY, value |-> NAN]

CD_new ==
  [num_stored |-> 0, num_deleted |-> 0, capacity |-> DEFAULT_DICT_CAPACITY,
   slot |-> [i \in 0..(DEFAULT_DICT_CAPACITY - 1) |-> EmptySlot]]

\* a load factor that never passes the threshold
LoadFactorAboveThreshold_Never(dict) == FALSE

\* a load factor that counts the stored entries only
LoadFactorAboveThreshold_StoredOnly(dict) ==
  10 * dict.num_stored > 6 * dict.capacity

\* (double)(num_stored + num_deleted) / capacity > 0.6; the capacity is a
\* power of two, so the quotient is never within rounding of 0.6
LoadFactorAboveThreshold(dict) ==
  10 * (dict.num_stored + dict.num_deleted) > 6 * dict.capacity

\* the index of the first slot at or after hash that is not in use
RECURSIVE RehashProbe(_, _, _)
RehashProbe(new_slot, hash, new_capacity) ==
  IF new_slot[hash].status = "SLOT_IN_USE"
  THEN RehashProbe(new_slot, (hash + 1) % new_capacity, new_capacity)
  ELSE hash

RECURSIVE RehashLoop(_, _, _, _)
RehashLoop(dict, new_slot, new_capacity, i) ==
  IF i >= dict.capacity THEN new_slot
  ELSE IF dict.slot[i].status = "SLOT_IN_USE"
  THEN LET hash == RehashProbe(new_slot, CD_hash(dict.slot[i].key, new_capacity), new_capacity)
       IN RehashLoop(dict,
                     [new_slot EXCEPT ![hash] = [status |-> "SLOT_IN_USE",
                                                 key |-> dict.slot[i].key,
                                                 value |-> dict.slot[i].value]],
                     new_capacity, i + 1)
  ELSE RehashLoop(dict, new_slot, new_capacity, i + 1)

\* a rehash that copies every entry to the index it had
CD_rehash_SameIndex(dict) ==
  LET new_capacity == dict.capacity * 2
  IN [num_stored |-> dict.num_stored, num_deleted |-> 0, capacity |-> new_capacity,
      slot |-> [i \in 0..(new_capacity - 1) |->
                  IF i < dict.capacity /\ dict.slot[i].status = "SLOT_IN_USE"
                  THEN dict.slot[i] ELSE EmptySlot]]

CD_rehash(dict) ==
  LET new_capacity == dict.capacity * 2
      new_slot == [i \in 0..(new_capacity - 1) |-> EmptySlot]
  IN [num_stored |-> dict.num_stored, num_deleted |-> 0, capacity |-> new_capacity,
      slot |-> RehashLoop(dict, new_slot, new_capacity, 0)]

\* a probe loop that stops at the first Deleted slot
RECURSIVE StoreProbe_StopAtDeleted(_, _, _, _)
StoreProbe_StopAtDeleted(dict, key, hash, steps) ==
  IF steps > dict.capacity THEN -1
  ELSE IF dict.slot[hash].status = "SLOT_IN_USE" /\ dict.slot[hash].key # key
  THEN StoreProbe_StopAtDeleted(dict, key, (hash + 1) % dict.capacity, steps + 1)
  ELSE hash

\* the slot at which the probe loop of CD_store stops, or -1 when it never
\* stops (no slot is unused and none holds the key)
RECURSIVE StoreProbe(_, _, _, _)
StoreProbe(dict, key, hash, steps) ==
  IF steps > dict.capacity THEN -1
  ELSE IF (dict.slot[hash].status = "SLOT_IN_USE" /\ dict.slot[hash].key # key)
          \/ dict.slot[hash].status = "SLOT_DELETED"
  THEN StoreProbe(dict, key, (hash + 1) % dict.capacity, steps + 1)
  ELSE hash

CD_store(dict, key, value) ==
  IF isnan(value) THEN dict
  ELSE LET hash == StoreProbe(dict, key, CD_hash(key, dict.capacity), 0)
       IN IF hash = -1 THEN dict
          ELSE IF dict.slot[hash].status = "SLOT_IN_USE" /\ dict.slot[hash].key = key
          THEN [dict EXCEPT !.slot[hash].value = value]
          ELSE LET stored == [dict EXCEPT !.slot[hash] = [status |-> "SLOT_IN_USE",
                                                          key |-> key, value |-> value],
                                          !.num_stored = dict.num_stored + 1]
               IN IF LoadFactorAboveThreshold(stored) THEN CD_rehash(stored) ELSE stored

\* the slot in which the lookup loop finds key, or -1
RECURSIVE FindSlot(_, _, _, _)
FindSlot(dict, key, hash, i) ==
  IF i >= dict.capacity THEN -1
  ELSE LET index == (hash + i) % dict.capacity
       IN IF dict.slot[index].status = "SLOT_UNUSED" THEN -1
          ELSE IF dict.slot[index].status = "SLOT_IN_USE" /\ dict.slot[index].key = key
          THEN index
          ELSE FindSlot(dict, key, hash, i + 1)

CD_retrieve(dict, key) ==
  LET index == FindSlot(dict, key, CD_hash(key, dict.capacity), 0)
  IN IF index = -1 THEN INVALID_VALUE ELSE dict.slot[index].value

CD_contains(dict, key) == FindSlot(dict, key, CD_hash(key, dict.capacity), 0) # -1

\* a delete that does not count the entry out of num_stored
CD_delete_KeepStored(dict, key) ==
  LET index == FindSlot(dict, key, CD_hash(key, dict.capacity), 0)
  IN IF index = -1 THEN dict
     ELSE [dict EXCEPT !.slot[index] = [status |-> "SLOT_DELETED", key |-> NULLKEY, value |-> NAN],
                       !.num_deleted = dict.num_deleted + 1]

\* a delete that leaves the slot Unused instead of Deleted
CD_delete_MarkUnused(dict, key) ==
  LET index == FindSlot(dict, key, CD_hash(key, dict.capacity), 0)
  IN IF index = -1 THEN dict
     ELSE [dict EXCEPT !.slot[index] = EmptySlot, !.num_stored = dict.num_stored - 1]

CD_delete(dict, key) ==
  LET index == FindSlot(dict, key, CD_hash(key, dict.capacity), 0)
  IN IF index = -1 THEN dict
     ELSE [dict EXCEPT !.slot[index] = [status |-> "SLOT_DELETED", key |-> NULLKEY, value |-> NAN],
                       !.num_stored = dict.num_stored - 1,
                       !.num_deleted = dict.num_deleted + 1]

CD_size(dict) == dict.num_stored

\* the count CD_size makes of the slots of one status
SlotsOfStatus(dict, status) ==
  Cardinality({i \in 0..(dict.capacity - 1) : dict.slot[i].status = status})

\* the two assertions of CD_size: used == num_stored, deleted == num_deleted
CD_size_asserts(dict) ==
  /\ SlotsOfStatus(dict, "SLOT_IN_USE") = dict.num_stored
  /\ SlotsOfStatus(dict, "SLOT_DELETED") = dict.num_deleted

CD_capacity(dict) == dict.capacity

\* the key copies CD_store allocates with strdup: one when it inserts
AllocatedByStore(dict, key, value) == CD_store(dict, key, value).num_stored - dict.num_stored

\* the key copies CD_delete frees: it sets key to NULL and frees nothing
FreedByDelete(dict, key) == 0

\* the key copies CD_free frees: those of the in-use slots
FreedByFree(dict) ==
  Cardinality({i \in 0..(dict.capacity - 1) : dict.slot[i].status = "SLOT_IN_USE"})


(***************************************************************************)
(* Tokens and the token list (token.h, TOK_* of tokenize.c).  A token is   *)
(* <<type, payload>>: the value of a TOK_VALUE, the text of a TOK_SYMBOL,  *)
(* 0.0 otherwise.                                                          *)
(***************************************************************************)
Token(type) == <<type, PosZero>>

ValueToken(v) == <<"TOK_VALUE", v>>

SymbolToken(str) == <<"TOK_SYMBOL", str>>

TT_to_str(tt) ==
  CASE tt = "TOK_VALUE" -> "VALUE"
    [] tt = "TOK_PLUS" -> "PLUS"
    [] tt = "TOK_MINUS" -> "MINUS"
    [] tt = "TOK_MULTIPLY" -> "MULTIPLY"
    [] tt = "TOK_DIVIDE" -> "DIVIDE"
    [] tt = "TOK_POWER" -> "POWER"
    [] tt = "TOK_OPEN_PAREN" -> "OPEN_PAREN"
    [] tt = "TOK_CLOSE_PAREN" -> "CLOSE_PAREN"
    [] tt = "TOK_EQUAL" -> "EQUAL"
    [] tt = "TOK_SYMBOL" -> "SYMBOL"
    [] tt = "TOK_END" -> "(end)"

TOK_next_type(toks) == IF Len(toks) > 0 THEN Head(toks)[1] ELSE "TOK_END"

TOK_next(toks) == IF Len(toks) > 0 THEN Head(toks) ELSE Token("TOK_END")

\* a consume that removes the last token of the list
TOK_consume_RemoveLast(toks) ==
  IF Len(toks) > 0 THEN SubSeq(toks, 1, Len(toks) - 1) ELSE toks

TOK_consume(toks) == IF Len(toks) > 0 THEN Tail(toks) ELSE toks

SYMBOL_MAX_SIZE == 31

(***************************************************************************)
(* The tokenizer (tokenize.c, TOK_tokenize_input).  The input is a         *)
(* sequence of character codes; reading past its last character gives the  *)
(* terminating 0.                                                          *)
(***************************************************************************)
CharAt(str, i) == IF i < Len(str) THEN str[i + 1] ELSE 0

isspace(c) == c = 32 \/ c \in 9..13

isdigit(c) == c \in 48..57

isalpha(c) == c \in 65..90 \/ c \in 97..122

isValidMathSign(sign) == sign \in {43, 45, 42, 47, 94}

\* the index after the digits that begin at index i
RECURSIVE DigitsEnd(_, _)
DigitsEnd(str, i) == IF isdigit(CharAt(str, i)) THEN DigitsEnd(str, i + 1) ELSE i

\* the value of the digits of str from index i up to index end, acc being
\* the value of the digits before i; a value above MaxMag is not tracked
RECURSIVE DigitsValue(_, _, _, _)
DigitsValue(str, i, end, acc) ==
  IF i >= end THEN acc
  ELSE DigitsValue(str, i + 1, end,
                   IF acc > MaxMag THEN acc ELSE (acc * 10) + (CharAt(str, i) - 48))

\* strtod(&input[i], &end) where input[i] is a digit or a "." before a
\* digit: the value and the index end.  Only a run of decimal digits is
\* tracked; a fraction, an exponent or a hexadecimal prefix makes the
\* conversion inexact
strtod(str, i) ==
  LET end == DigitsEnd(str, i)
      after == CharAt(str, end)
      after1 == CharAt(str, end + 1)
      after2 == CharAt(str, end + 2)
      plain == /\ end > i
               /\ after # 46
               /\ ~(after \in {69, 101}
                    /\ (isdigit(after1) \/ (after1 \in {43, 45} /\ isdigit(after2))))
               /\ ~(end = i + 1 /\ CharAt(str, i) = 48 /\ after \in {88, 120})
      n == DigitsValue(str, i, end, 0)
  IN [value |-> IF plain /\ n <= MaxMag THEN Num(n) ELSE Unmodelled,
      end |-> end,
      exact |-> plain /\ n <= MaxMag]

\* the index after the characters the symbol loop copies from index i on,
\* j being the number of characters copied so far
RECURSIVE SymbolEnd(_, _, _)
SymbolEnd(str, i, j) ==
  IF j < SYMBOL_MAX_SIZE
     /\ (isalpha(CharAt(str, i)) \/ isdigit(CharAt(str, i)) \/ CharAt(str, i) = 95)
  THEN SymbolEnd(str, i + 1, j + 1)
  ELSE i

\* what TOK_tokenize_input returns: the list (none when failed), the
\* message buffer, whether every number was converted exactly
Tokenized(list, msg, failed, ex) ==
  [tokens |-> list, errmsg |-> msg, failed |-> failed, exact |-> ex]

\* the type of the last token of the list, TOK_END for a list without
\* tokens
LastType(toks) == IF Len(toks) > 0 THEN toks[Len(toks)][1] ELSE "TOK_END"

\* the list with the value of its last token changed by delta
BumpLast(toks, delta) ==
  Append(SubSeq(toks, 1, Len(toks) - 1), ValueToken(Add(toks[Len(toks)][2], Num(delta))))

\* the value of the last token of the list
LastValue(toks) == toks[Len(toks)][2]

\* the token of a one-character operator
OperatorToken(c) ==
  CASE c = 42 -> Token("TOK_MULTIPLY")
    [] c = 47 -> Token("TOK_DIVIDE")
    [] c = 94 -> Token("TOK_POWER")
    [] c = 40 -> Token("TOK_OPEN_PAREN")
    [] c = 41 -> Token("TOK_CLOSE_PAREN")
    [] c = 61 -> Token("TOK_EQUAL")

\* the while loop of TOK_tokenize_input from index i on
RECURSIVE TokenizeLoop(_, _, _, _, _)
TokenizeLoop(str, i, toks, msg, ex) ==
  IF CharAt(str, i) = 0 THEN Tokenized(toks, msg, FALSE, ex)
  ELSE IF isspace(CharAt(str, i)) THEN TokenizeLoop(str, i + 1, toks, msg, ex)
  ELSE IF isdigit(CharAt(str, i)) \/ (CharAt(str, i) = 46 /\ isdigit(CharAt(str, i + 1)))
  THEN TokenizeLoop(str, strtod(str, i).end, Append(toks, ValueToken(strtod(str, i).value)),
                    msg, ex /\ strtod(str, i).exact)
  ELSE IF CharAt(str, i) \in {43, 45}
  THEN IF /\ CharAt(str, i + 1) = CharAt(str, i)
          /\ LastType(toks) = "TOK_VALUE"
          /\ isValidMathSign(CharAt(str, i + 2))
       THEN TokenizeLoop(str, i + 2, BumpLast(toks, IF CharAt(str, i) = 43 THEN 1 ELSE -1),
                         msg,
                         ex /\ LastValue(BumpLast(toks, IF CharAt(str, i) = 43 THEN 1 ELSE -1))
                                 # Unmodelled)
       ELSE TokenizeLoop(str, i + 1,
                         Append(toks, Token(IF CharAt(str, i) = 43 THEN "TOK_PLUS"
                                            ELSE "TOK_MINUS")),
                         msg, ex)
  ELSE IF CharAt(str, i) \in {42, 47, 94, 40, 41, 61}
  THEN TokenizeLoop(str, i + 1, Append(toks, OperatorToken(CharAt(str, i))), msg, ex)
  ELSE IF isalpha(CharAt(str, i))
  THEN TokenizeLoop(str, SymbolEnd(str, i, 0),
                    Append(toks, SymbolToken(SubSeq(str, i + 1, SymbolEnd(str, i, 0)))),
                    msg, ex)
  ELSE Tokenized(<<>>, <<"Position ", i + 1, ": unexpected character ", CharAt(str, i)>>,
                 TRUE, ex)

TOK_tokenize_input(str, msg) ==
  IF Len(str) > 31
  THEN Tokenized(<<>>, <<"Position ", 0 + 1, ": Symbol is too long">>, TRUE, TRUE)
  ELSE TokenizeLoop(str, 0, <<>>, msg, TRUE)

(***************************************************************************)
(* Expression trees (expr_tree.c).  A leaf is <<type, payload>>, an        *)
(* interior node <<type, child[LEFT], child[RIGHT]>>.                      *)
(***************************************************************************)
ET_value(value) == <<"VALUE", value>>

\* snprintf(tree->n.symbol, SYMBOL_MAX_SIZE + 1, "%s", symbol)
ET_symbol(symbol) ==
  <<"SYMBOL", IF Len(symbol) > SYMBOL_MAX_SIZE THEN SubSeq(symbol, 1, SYMBOL_MAX_SIZE) ELSE symbol>>

ET_node(op, left, right) == <<op, left, right>>

NodeType(t) == t[1]

IsLeaf(t) == t[1] = "VALUE" \/ t[1] = "SYMBOL"

Left(t) == t[2]

Right(t) == t[3]

RECURSIVE ET_count(_)
ET_count(t) ==
  IF t = NULL THEN 0
  ELSE IF IsLeaf(t) THEN 1
  ELSE 1 + ET_count(Left(t)) + ET_count(Right(t))

RECURSIVE ET_depth(_)
ET_depth(t) ==
  IF t = NULL THEN 0
  ELSE IF IsLeaf(t) THEN 1
  ELSE LET l == ET_depth(Left(t))
           r == ET_depth(Right(t))
       IN 1 + (IF l > r THEN l ELSE r)

(***************************************************************************)
(* The parser (parse.c).  Every rule returns the tree (NULL on failure),   *)
(* the tokens left, the error-message buffer, and the number of tree nodes *)
(* the call allocated and has not freed.                                   *)
(***************************************************************************)
Parsed(t, toks, msg, n) == [tree |-> t, tokens |-> toks, errmsg |-> msg, nodes |-> n]

\* the number of nodes ET_free(t) frees
RECURSIVE ET_free(_)
ET_free(t) ==
  IF t = NULL THEN 0
  ELSE IF IsLeaf(t) THEN 1
  ELSE ET_free(Left(t)) + ET_free(Right(t)) + 1

RECURSIVE assignment(_, _), assignmentLoop(_), additive(_, _), additiveLoop(_)
RECURSIVE multiplicative(_, _), multiplicativeLoop(_), exponential(_, _)
RECURSIVE exponentialLoop(_), primary(_, _)

\* a loop body that returns NULL without freeing the tree built so far
Join_NoFree(type, r, right) ==
  IF right.tree = NULL THEN Parsed(NULL, right.tokens, right.errmsg, r.nodes + right.nodes)
  ELSE Parsed(ET_node(type, r.tree, right.tree), right.tokens, right.errmsg,
              r.nodes + right.nodes + 1)

\* one pass of a rule's while loop: r holds the tree built so far, right is
\* what parsing the right operand returned; NULL frees the tree built so
\* far and ends the rule, else the new node becomes the tree built so far
Join(type, r, right) ==
  IF right.tree = NULL
  THEN Parsed(NULL, right.tokens, right.errmsg, (r.nodes + right.nodes) - ET_free(r.tree))
  ELSE Parsed(ET_node(type, r.tree, right.tree), right.tokens, right.errmsg,
              r.nodes + right.nodes + 1)

\* a primary that takes any token after the expression for the ")"
CloseParen_AnyToken(r) ==
  IF r.tree = NULL THEN r
  ELSE Parsed(r.tree, TOK_consume(r.tokens), r.errmsg, r.nodes)

\* primary after "(": r is what assignment returned
CloseParen(r) ==
  IF r.tree = NULL THEN r
  ELSE IF TOK_next_type(r.tokens) # "TOK_CLOSE_PAREN"
  THEN Parsed(NULL, r.tokens, <<"Expected ')'">>, r.nodes - ET_free(r.tree))
  ELSE Parsed(r.tree, TOK_consume(r.tokens), r.errmsg, r.nodes)

\* primary after "-": r is what primary returned
Negate(r) ==
  IF r.tree = NULL THEN r
  ELSE Parsed(ET_node("UNARY_NEGATE", r.tree, NULL), r.tokens, r.errmsg, r.nodes + 1)

\* a primary that reports the token after the one it met
primary_NextToken(toks, msg) ==
  IF TOK_next_type(toks) = "TOK_VALUE"
  THEN Parsed(ET_value(TOK_next(toks)[2]), TOK_consume(toks), msg, 1)
  ELSE IF TOK_next_type(toks) = "TOK_OPEN_PAREN"
  THEN CloseParen(assignment(TOK_consume(toks), msg))
  ELSE IF TOK_next_type(toks) = "TOK_MINUS"
  THEN Negate(primary(TOK_consume(toks), msg))
  ELSE IF TOK_next_type(toks) = "TOK_SYMBOL"
  THEN Parsed(ET_symbol(TOK_next(toks)[2]), TOK_consume(toks), msg, 1)
  ELSE Parsed(NULL, TOK_consume(toks),
              <<"Unexpected token ", TT_to_str(TOK_next_type(TOK_consume(toks)))>>, 0)

primary(toks, msg) ==
  IF TOK_next_type(toks) = "TOK_VALUE"
  THEN Parsed(ET_value(TOK_next(toks)[2]), TOK_consume(toks), msg, 1)
  ELSE IF TOK_next_type(toks) = "TOK_OPEN_PAREN"
  THEN CloseParen(assignment(TOK_consume(toks), msg))
  ELSE IF TOK_next_type(toks) = "TOK_MINUS"
  THEN Negate(primary(TOK_consume(toks), msg))
  ELSE IF TOK_next_type(toks) = "TOK_SYMBOL"
  THEN Parsed(ET_symbol(TOK_next(toks)[2]), TOK_consume(toks), msg, 1)
  ELSE Parsed(NULL, toks, <<"Unexpected token ", TT_to_str(TOK_next_type(toks))>>,
              ET_free(NULL))

\* an exponential rule that leaves "=" to the assignment rule
exponentialLoop_PowerOnly(r) ==
  IF r.tree = NULL THEN r
  ELSE IF TOK_next_type(r.tokens) = "TOK_POWER"
  THEN exponentialLoop(Join("OP_POWER", r, exponential(TOK_consume(r.tokens), r.errmsg)))
  ELSE r

\* an exponential rule whose "=" takes an exponential as its right side
exponentialLoop_AssignExponential(r) ==
  IF r.tree = NULL THEN r
  ELSE IF TOK_next_type(r.tokens) = "TOK_POWER"
  THEN exponentialLoop(Join("OP_POWER", r, exponential(TOK_consume(r.tokens), r.errmsg)))
  ELSE IF TOK_next_type(r.tokens) = "TOK_EQUAL"
  THEN exponentialLoop(Join("OP_ASSIGN", r, exponential(TOK_consume(r.tokens), r.errmsg)))
  ELSE r

\* exponential from the first operand on: r is what primary returned, then
\* what the loop has built so far
exponentialLoop(r) ==
  IF r.tree = NULL THEN r
  ELSE IF TOK_next_type(r.tokens) = "TOK_POWER"
  THEN exponentialLoop(Join("OP_POWER", r, exponential(TOK_consume(r.tokens), r.errmsg)))
  ELSE IF TOK_next_type(r.tokens) = "TOK_EQUAL"
  THEN exponentialLoop(Join("OP_ASSIGN", r, assignment(TOK_consume(r.tokens), r.errmsg)))
  ELSE r

exponential(toks, msg) == exponentialLoop(primary(toks, msg))

\* a multiplicative rule whose operands are additive expressions
multiplicativeLoop_AdditiveOperand(r) ==
  IF r.tree = NULL THEN r
  ELSE IF TOK_next_type(r.tokens) = "TOK_MULTIPLY"
  THEN multiplicativeLoop(Join("OP_MUL", r, additive(TOK_consume(r.tokens), r.errmsg)))
  ELSE IF TOK_next_type(r.tokens) = "TOK_DIVIDE"
  THEN multiplicativeLoop(Join("OP_DIV", r, additive(TOK_consume(r.tokens), r.errmsg)))
  ELSE r

\* multiplicative from the first operand on
multiplicativeLoop(r) ==
  IF r.tree = NULL THEN r
  ELSE IF TOK_next_type(r.tokens) = "TOK_MULTIPLY"
  THEN multiplicativeLoop(Join("OP_MUL", r, exponential(TOK_consume(r.tokens), r.errmsg)))
  ELSE IF TOK_next_type(r.tokens) = "TOK_DIVIDE"
  THEN multiplicativeLoop(Join("OP_DIV", r, exponential(TOK_consume(r.tokens), r.errmsg)))
  ELSE r

multiplicative(toks, msg) == multiplicativeLoop(exponential(toks, msg))

\* an additive rule that folds to the right
additiveLoop_RightFold(r) ==
  IF r.tree = NULL THEN r
  ELSE IF TOK_next_type(r.tokens) = "TOK_PLUS"
  THEN Join("OP_ADD", r, additive(TOK_consume(r.tokens), r.errmsg))
  ELSE IF TOK_next_type(r.tokens) = "TOK_MINUS"
  THEN Join("OP_SUB", r, additive(TOK_consume(r.tokens), r.errmsg))
  ELSE r

\* additive from the first operand on
additiveLoop(r) ==
  IF r.tree = NULL THEN r
  ELSE IF TOK_next_type(r.tokens) = "TOK_PLUS"
  THEN additiveLoop(Join("OP_ADD", r, multiplicative(TOK_consume(r.tokens), r.errmsg)))
  ELSE IF TOK_next_type(r.tokens) = "TOK_MINUS"
  THEN additiveLoop(Join("OP_SUB", r, multiplicative(TOK_consume(r.tokens), r.errmsg)))
  ELSE r

additive(toks, msg) == additiveLoop(multiplicative(toks, msg))

\* assignment from the first operand on
assignmentLoop(r) ==
  IF r.tree = NULL THEN r
  ELSE IF TOK_next_type(r.tokens) = "TOK_EQUAL"
  THEN assignmentLoop(Join("OP_ASSIGN", r, assignment(TOK_consume(r.tokens), r.errmsg)))
  ELSE r

assignment(toks, msg) == assignmentLoop(additive(toks, msg))

\* a Parse that returns the tree whatever token follows it
EndOfTokens_AnyToken(r) == r

\* Parse after the call of assignment: r is what it returned
EndOfTokens(r) ==
  IF r.tree = NULL THEN r
  ELSE IF TOK_next_type(r.tokens) # "TOK_END"
  THEN Parsed(NULL, r.tokens, <<"Syntax error on token ", TT_to_str(TOK_next_type(r.tokens))>>,
              r.nodes - ET_free(r.tree))
  ELSE r

\* a Parse that hands an empty token list to assignment
Parse_NoEmptyCheck(toks, msg) == EndOfTokens(assignment(toks, msg))

Parse(toks, msg) ==
  IF Len(toks) = 0 \/ TOK_next_type(toks) = "TOK_END" THEN Parsed(NULL, toks, msg, 0)
  ELSE EndOfTokens(assignment(toks, msg))

(***************************************************************************)
(* The evaluator (ET_evaluate of expr_tree.c).  It returns the value, the  *)
(* dictionary and the error-message buffer as the call leaves them; exact  *)
(* is FALSE when a value outside the tracked doubles was met.              *)
(***************************************************************************)
Evaluated(v, d, msg, ex) ==
  [value |-> v, vars |-> d, errmsg |-> msg, exact |-> ex /\ v # Unmodelled]

\* an assignment that returns the value without storing it
EvalAssign_NoStore(t, r, ex) ==
  IF NodeType(Left(t)) # "SYMBOL"
  THEN Evaluated(NAN, r.vars, <<"Left side of assignment must be a symbol">>, ex)
  ELSE Evaluated(r.value, r.vars, r.errmsg, ex)

\* case OP_ASSIGN of ET_evaluate, r being what evaluating the children left
EvalAssign(t, r, ex) ==
  IF NodeType(Left(t)) # "SYMBOL"
  THEN Evaluated(NAN, r.vars, <<"Left side of assignment must be a symbol">>, ex)
  ELSE Evaluated(r.value, CD_store(r.vars, Left(t)[2], r.value), r.errmsg, ex)

\* a right child that is evaluated against the dictionary as it was before
\* the left child was evaluated
VarsForRight_Before(l, d) == d

\* the dictionary the evaluation of the right child works on: vars is one
\* object, so it is d as the evaluation l of the left child left it
VarsForRight(l, d) == l.vars

RECURSIVE ET_evaluate(_, _, _)
ET_evaluate(t, d, msg) ==
  IF t = NULL THEN Evaluated(PosZero, d, msg, TRUE)
  ELSE IF NodeType(t) = "VALUE" THEN Evaluated(t[2], d, msg, TRUE)
  ELSE IF NodeType(t) = "SYMBOL" THEN Evaluated(CD_retrieve(d, t[2]), d, msg, TRUE)
  ELSE LET l == ET_evaluate(Left(t), d, msg)
           r == ET_evaluate(Right(t), VarsForRight(l, d), l.errmsg)
           left == l.value
           right == r.value
           ex == l.exact /\ r.exact
       IN CASE NodeType(t) = "OP_ADD" -> Evaluated(Add(left, right), r.vars, r.errmsg, ex)
            [] NodeType(t) = "OP_SUB" -> Evaluated(Sub(left, right), r.vars, r.errmsg, ex)
            [] NodeType(t) = "OP_MUL" -> Evaluated(Mul(left, right), r.vars, r.errmsg, ex)
            [] NodeType(t) = "OP_DIV" -> Evaluated(Div(left, right), r.vars, r.errmsg, ex)
            [] NodeType(t) = "OP_POWER" -> Evaluated(pow(left, right), r.vars, r.errmsg, ex)
            [] NodeType(t) = "UNARY_NEGATE" -> Evaluated(Neg(left), r.vars, r.errmsg, ex)
            [] NodeType(t) = "OP_ASSIGN" -> EvalAssign(t, r, ex)

(***************************************************************************)
(* The printer (expr_tree.c, ET_tree2string).  A buffer of buf_sz bytes is *)
(* held as the string it contains (the bytes before the first 0) and the   *)
(* lowest and highest index the call wrote to, in its own buffer or in the *)
(* leftBuffer and rightBuffer of a nested call, which have the same size.  *)
(***************************************************************************)
Min(a, b) == IF a < b THEN a ELSE b

Max(a, b) == IF a > b THEN a ELSE b

\* the decimal digits of n >= 0
RECURSIVE Digits(_)
Digits(n) == IF n < 10 THEN <<48 + n>> ELSE Append(Digits(n \div 10), 48 + (n % 10))

\* whether "%g" of the value is tracked: a whole number below 1000000
GTracked(v) == v # Unmodelled /\ IsFinite(v) /\ Denom(v) = 1 /\ Abs(Numer(v)) < 1000000

\* snprintf "%g" of a tracked value: the minus sign, then the digits
FormatG(v) ==
  IF ~GTracked(v) THEN <<63>>
  ELSE IF SignOf(v) < 0 THEN <<45>> \o Digits(Abs(Numer(v)))
  ELSE Digits(Numer(v))

ExprNodeType_to_char(ent) ==
  CASE ent \in {"OP_SUB", "UNARY_NEGATE"} -> 45
    [] ent = "OP_ADD" -> 43
    [] ent = "OP_MUL" -> 42
    [] ent = "OP_DIV" -> 47
    [] ent = "OP_POWER" -> 94
    [] ent = "OP_ASSIGN" -> 61

\* what a call of ET_tree2string leaves: the string in buf, the value
\* returned, the lowest and highest index written (lo > hi: nothing
\* written), whether every "%g" was tracked
Printed(str, ret, lo, hi, ex) == [str |-> str, ret |-> ret, lo |-> lo, hi |-> hi, exact |-> ex]

\* the end of ET_tree2string: snprintf has formatted text into buf (it
\* writes at most buf_sz - 1 characters and a 0, and returns the length of
\* text); lo and hi are what the nested calls wrote.  A text that does not
\* fit gets "$" at buf_sz - 2 and 0 at buf_sz - 1
Truncate(text, buf_sz, lo, hi, ex) ==
  IF Len(text) >= buf_sz
  THEN Printed(IF buf_sz >= 2 THEN Append(SubSeq(text, 1, buf_sz - 2), 36) ELSE <<>>,
               buf_sz - 1, Min(lo, buf_sz - 2), Max(hi, buf_sz - 1), ex)
  ELSE Printed(text, Len(text), Min(lo, 0), Max(hi, Len(text)), ex)

\* "(-%s)" of what the call on the child left in leftBuffer
PrintNegate(l, buf_sz) ==
  Truncate(<<40, 45>> \o l.str \o <<41>>, buf_sz, l.lo, l.hi, l.exact)

\* "(%s %c %s)" of what the calls on the children left in leftBuffer and
\* rightBuffer
PrintBinary(op, l, r, buf_sz) ==
  Truncate(<<40>> \o l.str \o <<32, ExprNodeType_to_char(op), 32>> \o r.str \o <<41>>, buf_sz,
           Min(l.lo, r.lo), Max(l.hi, r.hi), l.exact /\ r.exact)

RECURSIVE ET_tree2string(_, _)
ET_tree2string(t, buf_sz) ==
  IF t = NULL \/ buf_sz = 0 THEN Printed(<<>>, 0, 0, -1, TRUE)
  ELSE IF NodeType(t) = "VALUE" THEN Truncate(FormatG(t[2]), buf_sz, 0, -1, GTracked(t[2]))
  ELSE IF NodeType(t) = "SYMBOL" THEN Truncate(t[2], buf_sz, 0, -1, TRUE)
  ELSE IF NodeType(t) = "UNARY_NEGATE"
  THEN PrintNegate(ET_tree2string(Left(t), buf_sz), buf_sz)
  ELSE PrintBinary(NodeType(t), ET_tree2string(Left(t), buf_sz),
                   ET_tree2string(Right(t), buf_sz), buf_sz)

(***************************************************************************)
(* State.                                                                  *)
(*   dict    the session's dictionary (CDict vars)                         *)
(*   shadow  the map the dictionary is meant to implement: key -> the      *)
(*           value last stored and not deleted since, NAN when there is    *)
(*           none                                                          *)
(*   last    the last dictionary call and what lookups returned before it  *)
(*   tokens  the token list (front first)                                  *)
(*   input   the token list as it was handed to Parse                      *)
(*   tree    the expression tree                                           *)
(*   errmsg  the caller's error-message buffer                             *)
(*   result  the value ET_evaluate returned                                *)
(*   pc      the caller's position                                         *)
(*   env0    the dictionary as it was before the tree was evaluated        *)
(*   buf, buf_sz, written, length                                          *)
(*           the buffer handed to ET_tree2string (the string it holds),    *)
(*           its size, the indices the call wrote to, the value returned   *)
(*   printed, entered                                                      *)
(*           what the last pass of main's loop printed, and the number of  *)
(*           lines entered                                                 *)
(***************************************************************************)
VARIABLES dict, shadow, last, tokens, input, tree, errmsg, result, pc, env0, allocated, nodes,
          consumes, line, buf, buf_sz, written, length, printed, entered

\* the variables of the printer
printVars == <<buf, buf_sz, written, length>>

\* the variables of the session
sessionVars == <<printed, entered>>

vars ==
  <<dict, shadow, last, tokens, input, tree, errmsg, result, pc, env0, allocated, nodes,
    consumes, line, printVars, sessionVars>>

\* keys whose probe sequences overlap: a, i and q hash to slot 0 of 8, x to 1
DictKeys == {Str_a, Str_i, Str_q, Str_x, Str_pi}

DictValues == {Num(1), Num(2), NAN}

\* the store calls: every key takes the value 1, and the two keys that
\* collide at every capacity also take a second value and NaN
StoreCalls ==
  {<<key, Num(1)>> : key \in DictKeys}
    \cup {<<key, value>> : key \in {Str_a, Str_q}, value \in DictValues}

NoCall ==
  [op |-> "new", key |-> NULLKEY, value |-> NAN, absent |-> TRUE,
   capacity |-> DEFAULT_DICT_CAPACITY, load |-> 0, afterDelete |-> FALSE, delSlot |-> -1,
   deletes |-> 0]

NoMessage == <<>>

InitDict ==
  /\ dict = CD_new
  /\ shadow = [k \in DictKeys |-> NAN]
  /\ last = NoCall
  /\ tokens = <<>>
  /\ input = <<>>
  /\ tree = NULL
  /\ errmsg = NoMessage
  /\ result = NAN
  /\ pc = "dict"
  /\ env0 = CD_new
  /\ allocated = 0
  /\ nodes = 0
  /\ consumes = 0
  /\ line = <<>>
  /\ buf = <<>>
  /\ buf_sz = 0
  /\ written = {}
  /\ length = 0
  /\ printed = <<>>
  /\ entered = 0

\* a caller stores value under key
DictStore(key, value) ==
  /\ pc = "dict"
  /\ dict' = CD_store(dict, key, value)
  /\ shadow' = IF isnan(value) THEN shadow ELSE [shadow EXCEPT ![key] = value]
  /\ last' = [op |-> "store", key |-> key, value |-> value,
              absent |-> ~CD_contains(dict, key), capacity |-> dict.capacity,
              load |-> dict.num_stored + dict.num_deleted,
              afterDelete |-> (last.op = "delete" /\ last.key = key),
              delSlot |-> IF last.op = "delete" /\ last.key = key THEN last.delSlot ELSE -1,
              deletes |-> last.deletes]
  /\ allocated' = allocated + AllocatedByStore(dict, key, value)
  /\ UNCHANGED <<tokens, input, tree, errmsg, result, pc, env0, nodes, consumes, line,
                 printVars, sessionVars>>

\* a caller deletes key
DictDelete(key) ==
  /\ pc = "dict"
  /\ CD_contains(dict, key) => last.deletes < MaxTombstones
  /\ dict' = CD_delete(dict, key)
  /\ shadow' = [shadow EXCEPT ![key] = NAN]
  /\ last' = [op |-> "delete", key |-> key, value |-> NAN,
              absent |-> ~CD_contains(dict, key), capacity |-> dict.capacity,
              load |-> dict.num_stored + dict.num_deleted, afterDelete |-> FALSE,
              delSlot |-> FindSlot(dict, key, CD_hash(key, dict.capacity), 0),
              deletes |-> IF CD_contains(dict, key) THEN last.deletes + 1 ELSE last.deletes]
  /\ allocated' = allocated - FreedByDelete(dict, key)
  /\ UNCHANGED <<tokens, input, tree, errmsg, result, pc, env0, nodes, consumes, line,
                 printVars, sessionVars>>

\* the caller tears the dictionary down (CD_free): the slots and the
\* dictionary are freed and no call follows, so nothing is stored any more
DictFree ==
  /\ pc = "dict"
  /\ pc' = "freed"
  /\ allocated' = allocated - FreedByFree(dict)
  /\ dict' = CD_new
  /\ shadow' = [k \in DictKeys |-> NAN]
  /\ last' = [NoCall EXCEPT !.op = "free"]
  /\ UNCHANGED <<tokens, input, tree, errmsg, result, env0, nodes, consumes, line,
                 printVars, sessionVars>>

NextDict ==
  \/ \E call \in StoreCalls : DictStore(call[1], call[2])
  \/ \E key \in DictKeys : DictDelete(key)
  \/ DictFree

SpecDict == InitDict /\ [][NextDict]_vars


(***************************************************************************)
(* A caller parses a token list and evaluates the tree (main of            *)
(* expr_whizz.c, test_parse_once of ew_test.c), or builds a tree with      *)
(* ET_value, ET_symbol and ET_node and evaluates it (test_expr_tree).      *)
(***************************************************************************)
\* one token of every kind the grammar tells apart (the binary operators of
\* a precedence level are handled by the same code, "-" is also unary)
Alphabet ==
  {ValueToken(Num(2)), SymbolToken(Str_x), Token("TOK_MINUS"), Token("TOK_MULTIPLY"),
   Token("TOK_POWER"), Token("TOK_OPEN_PAREN"), Token("TOK_CLOSE_PAREN"), Token("TOK_EQUAL")}

\* the tokens of an expression without parentheses and without "="
ArithAlphabet ==
  {ValueToken(Num(2)), SymbolToken(Str_x), Token("TOK_PLUS"), Token("TOK_MINUS"),
   Token("TOK_MULTIPLY"), Token("TOK_DIVIDE"), Token("TOK_POWER")}

\* s1 = s2 =
ChainPrefixes ==
  {<<SymbolToken(s1), Token("TOK_EQUAL"), SymbolToken(s2), Token("TOK_EQUAL")>> :
     s1 \in {Str_a, Str_b}, s2 \in {Str_a, Str_b}}

V(n) == ValueToken(Num(n))

\* token lists of the README and of ew_test.c
ExampleSeqs ==
  {<<V(10), Token("TOK_MINUS"), V(2), Token("TOK_MINUS"), V(3)>>,
   <<V(10), Token("TOK_DIVIDE"), V(2), Token("TOK_DIVIDE"), V(5)>>,
   <<V(2), Token("TOK_POWER"), V(3), Token("TOK_POWER"), V(2)>>,
   <<V(10), Token("TOK_MINUS"), V(2), Token("TOK_MINUS"), V(3), Token("TOK_MINUS"), V(4)>>,
   <<V(2), Token("TOK_PLUS"), V(3), Token("TOK_MULTIPLY"), V(2)>>,
   <<Token("TOK_MINUS"), V(1), Token("TOK_POWER"), V(2)>>,
   <<SymbolToken(Str_x), Token("TOK_EQUAL"), V(25)>>,
   <<SymbolToken(Str_x), Token("TOK_EQUAL"), SymbolToken(Str_x), Token("TOK_MINUS"),
     SymbolToken(Str_y)>>,
   <<SymbolToken(Str_a), Token("TOK_EQUAL"), SymbolToken(Str_b), Token("TOK_EQUAL"),
     SymbolToken(Str_y)>>,
   <<SymbolToken(Str_a), Token("TOK_EQUAL"), SymbolToken(Str_b), Token("TOK_EQUAL"),
     SymbolToken(Str_pi)>>,
   <<SymbolToken(Str_a), Token("TOK_EQUAL"), SymbolToken(Str_b), Token("TOK_EQUAL"),
     V(0), Token("TOK_DIVIDE"), V(0)>>,
   <<V(2), Token("TOK_PLUS"), SymbolToken(Str_x), Token("TOK_EQUAL"), V(3)>>,
   <<V(1), Token("TOK_POWER"), V(3), Token("TOK_EQUAL"), V(4)>>,
   <<V(3), Token("TOK_EQUAL"), V(4)>>,
   <<Token("TOK_OPEN_PAREN"), SymbolToken(Str_a), Token("TOK_EQUAL"), V(1),
     Token("TOK_CLOSE_PAREN"), Token("TOK_EQUAL"), V(2)>>,
   <<V(3), Token("TOK_PLUS"), V(2), Token("TOK_CLOSE_PAREN")>>,
   <<V(1), Token("TOK_PLUS"), V(2), Token("TOK_OPEN_PAREN")>>,
   <<V(3), SymbolToken(Str_y)>>,
   <<V(2), Token("TOK_PLUS"), Token("TOK_PLUS"), V(3)>>,
   <<V(2), Token("TOK_PLUS"), Token("TOK_MULTIPLY"), V(3)>>,
   <<V(3), Token("TOK_PLUS"), Token("TOK_CLOSE_PAREN"), V(2)>>,
   <<V(3), Token("TOK_PLUS"), Token("TOK_OPEN_PAREN"), V(2), Token("TOK_MULTIPLY")>>,
   <<Token("TOK_OPEN_PAREN"), V(2), Token("TOK_PLUS"), V(3), Token("TOK_MULTIPLY"), V(1)>>,
   <<Token("TOK_END"), V(2)>>}

Leaves ==
  {ET_value(Num(0)), ET_value(Num(1)), ET_value(Num(2)), ET_symbol(Str_x), ET_symbol(Str_pi)}

BinaryOps == {"OP_ADD", "OP_SUB", "OP_MUL", "OP_DIV", "OP_POWER", "OP_ASSIGN"}

\* the trees of exactly n nodes that ET_value, ET_symbol and ET_node build
RECURSIVE TreesOfSize(_)
TreesOfSize(n) ==
  IF n = 1 THEN Leaves
  ELSE {ET_node("UNARY_NEGATE", c, NULL) : c \in TreesOfSize(n - 1)}
       \cup UNION {{ET_node(op, l, r) : op \in BinaryOps, l \in TreesOfSize(k),
                                        r \in TreesOfSize(n - 1 - k)} : k \in 1..(n - 2)}

\* the tree of (x = 1) + (x = 2)
OrderTrees ==
  {ET_node("OP_ADD", ET_node("OP_ASSIGN", ET_symbol(Str_x), ET_value(Num(1))),
           ET_node("OP_ASSIGN", ET_symbol(Str_x), ET_value(Num(2))))}

\* the dictionary after x = 2 and y = 4
DictXY == CD_store(CD_store(CD_new, Str_x, Num(2)), Str_y, Num(4))

IsPrefix(seq, whole) ==
  Len(seq) <= Len(whole) /\ \A i \in 1..Len(seq) : seq[i] = whole[i]

\* the token lists handed to Parse, and their prefixes
InputLists(seq) ==
  \/ Len(seq) <= MaxLen - 1 /\ \A i \in 1..Len(seq) : seq[i] \in Alphabet
  \/ Len(seq) <= MaxLen /\ \A i \in 1..Len(seq) : seq[i] \in ArithAlphabet
  \/ /\ Len(seq) <= MaxLen + 2
     /\ \E prefix \in ChainPrefixes : \A i \in 1..Len(seq) : i <= 4 => seq[i] = prefix[i]
     /\ \A i \in 1..Len(seq) : i > 4 => seq[i] \in Alphabet
  \/ \E whole \in ExampleSeqs : IsPrefix(seq, whole)

AllTokens ==
  Alphabet \cup ArithAlphabet \cup UNION {{whole[i] : i \in 1..Len(whole)} : whole \in ExampleSeqs}

InitExpr ==
  /\ shadow = [k \in DictKeys |-> NAN]
  /\ last = NoCall
  /\ errmsg = NoMessage
  /\ result = NAN
  /\ input = <<>>
  /\ tokens = <<>>
  /\ \/ /\ tree = NULL
        /\ dict = DictXY
        /\ pc = "tokens"
     \/ /\ \/ \E n \in 1..MaxNodes : tree \in TreesOfSize(n)
           \/ tree \in OrderTrees
        /\ dict \in {CD_new, DictXY}
        /\ pc = "evaluate"
  /\ env0 = dict
  /\ allocated = dict.num_stored
  /\ nodes = ET_count(tree)
  /\ consumes = 0
  /\ line = <<>>
  /\ buf = <<>>
  /\ buf_sz = 0
  /\ written = {}
  /\ length = 0
  /\ printed = <<>>
  /\ entered = 0

\* the caller appends a token to the list (CL_append)
AppendToken(tok) ==
  /\ pc = "tokens"
  /\ InputLists(Append(input, tok))
  /\ input' = Append(input, tok)
  /\ tokens' = Append(tokens, tok)
  /\ UNCHANGED <<dict, shadow, last, tree, errmsg, result, pc, env0, allocated,
               nodes, consumes, line, printVars, sessionVars>>

\* tree = Parse(tokens, errmsg, sizeof(errmsg))
DoParse ==
  /\ pc = "tokens"
  /\ LET r == Parse(tokens, errmsg)
     IN /\ tree' = r.tree
        /\ tokens' = r.tokens
        /\ errmsg' = r.errmsg
        /\ nodes' = nodes + r.nodes
        /\ consumes' = consumes + (Len(tokens) - Len(r.tokens))
        /\ pc' = IF r.tree = NULL THEN "done" ELSE "evaluate"
  /\ last' = [NoCall EXCEPT !.op = "parse"]
  /\ UNCHANGED <<dict, shadow, input, result, env0, allocated, line, printVars, sessionVars>>

\* result = ET_evaluate(tree, vars, errmsg, sizeof(errmsg)); test_parse_once
\* evaluates whatever Parse returned, NULL included, and pc "absent" is the
\* caller holding the value of the absent tree
DoEvaluate ==
  /\ pc \in {"evaluate", "done"}
  /\ LET r == ET_evaluate(tree, dict, errmsg)
     IN /\ r.exact
        /\ result' = r.value
        /\ dict' = r.vars
        /\ errmsg' = r.errmsg
        /\ allocated' = allocated + (r.vars.num_stored - dict.num_stored)
  /\ pc' = IF tree = NULL THEN "absent" ELSE "evaluated"
  /\ UNCHANGED <<shadow, last, tokens, input, tree, env0, nodes, consumes, line,
                 printVars, sessionVars>>

NextExpr ==
  \/ \E tok \in AllTokens : AppendToken(tok)
  \/ DoParse
  \/ DoEvaluate

Spec == InitExpr /\ [][NextExpr]_vars

(***************************************************************************)
(* The peek-and-consume test (ew_test.c, test_tok_next_consume): tokens    *)
(* are appended to a new list, then the list is consumed from the front,   *)
(* and consumed further once it is exhausted.                              *)
(***************************************************************************)
StreamTokens ==
  {ValueToken(Num(2)), SymbolToken(Str_x), Token("TOK_PLUS"), Token("TOK_OPEN_PAREN"),
   Token("TOK_END")}

InitTokens ==
  /\ dict = CD_new
  /\ shadow = [k \in DictKeys |-> NAN]
  /\ last = NoCall
  /\ errmsg = NoMessage
  /\ result = NAN
  /\ input = <<>>
  /\ tokens = <<>>
  /\ tree = NULL
  /\ pc = "tokens"
  /\ env0 = dict
  /\ allocated = 0
  /\ nodes = 0
  /\ consumes = 0
  /\ line = <<>>
  /\ buf = <<>>
  /\ buf_sz = 0
  /\ written = {}
  /\ length = 0
  /\ printed = <<>>
  /\ entered = 0

\* CL_append(list, tokens[i])
TokAppend(tok) ==
  /\ pc = "tokens"
  /\ Len(input) < MaxStream
  /\ input' = Append(input, tok)
  /\ tokens' = Append(tokens, tok)
  /\ UNCHANGED <<dict, shadow, last, tree, errmsg, result, pc, env0, allocated, nodes,
                 consumes, line, printVars, sessionVars>>

\* TOK_consume(list)
TokConsume ==
  /\ pc \in {"tokens", "consume"}
  /\ consumes < Len(input) + MaxExtraConsumes
  /\ tokens' = TOK_consume(tokens)
  /\ consumes' = consumes + 1
  /\ pc' = "consume"
  /\ UNCHANGED <<dict, shadow, last, input, tree, errmsg, result, env0, allocated, nodes,
                 line, printVars, sessionVars>>

NextTokens ==
  \/ \E tok \in StreamTokens : TokAppend(tok)
  \/ TokConsume

SpecTokens == InitTokens /\ [][NextTokens]_vars

(***************************************************************************)
(* Tokenizing a line (expr_whizz.c, main; ew_test.c, test_tokenize_input). *)
(* The lines are a few typed characters, then a run of the letter e of a   *)
(* length around the symbol cap, then an ending.                           *)
(***************************************************************************)
\* m 1 + space _ $ (
TypedChars == {109, 49, 43, 32, 95, 36, 40}

\* most characters typed before the run of letters
MaxTyped == 3

\* the lengths of the run of letters: none, 28 (a line of 31 characters
\* after three typed ones), the cap, the cap exceeded, and the 44 letters
\* that follow "mak" in the line of 48 letters of test_tokenize_input
RunLengths == {0, SYMBOL_MAX_SIZE - 3, SYMBOL_MAX_SIZE, SYMBOL_MAX_SIZE + 1, 44}

\* nothing, + 1, $, 32 spaces
Endings == {<<>>, <<43, 49>>, <<36>>, [i \in 1..(SYMBOL_MAX_SIZE + 1) |-> 32]}

Lines ==
  {prefix \o [i \in 1..n |-> 101] \o ending :
     prefix \in UNION {[1..k -> TypedChars] : k \in 0..MaxTyped},
     n \in RunLengths, ending \in Endings}

InitLine ==
  /\ dict = CD_new
  /\ shadow = [k \in DictKeys |-> NAN]
  /\ last = NoCall
  /\ errmsg = NoMessage
  /\ result = NAN
  /\ input = <<>>
  /\ tokens = <<>>
  /\ tree = NULL
  /\ pc = "line"
  /\ env0 = dict
  /\ allocated = 0
  /\ nodes = 0
  /\ consumes = 0
  /\ line \in Lines
  /\ buf = <<>>
  /\ buf_sz = 0
  /\ written = {}
  /\ length = 0
  /\ printed = <<>>
  /\ entered = 0

\* tokens = TOK_tokenize_input(input, errmsg, sizeof(errmsg))
DoTokenize ==
  /\ pc = "line"
  /\ TOK_tokenize_input(line, errmsg).exact
  /\ tokens' = TOK_tokenize_input(line, errmsg).tokens
  /\ input' = TOK_tokenize_input(line, errmsg).tokens
  /\ errmsg' = TOK_tokenize_input(line, errmsg).errmsg
  /\ pc' = IF TOK_tokenize_input(line, errmsg).failed THEN "rejected" ELSE "tokens"
  /\ UNCHANGED <<dict, shadow, last, tree, result, env0, allocated, nodes, consumes,
                 line, printVars, sessionVars>>

NextLine == DoTokenize

SpecTokenize == InitLine /\ [][NextLine]_vars

(***************************************************************************)
(* Printing a tree into a buffer (expr_whizz.c, main; ew_test.c,           *)
(* test_expr_tree).                                                        *)
(***************************************************************************)
\* largest number of nodes of a tree handed to ET_tree2string
MaxPrintNodes == 3

\* largest buffer handed to ET_tree2string
MaxBuf == 14

\* what the buffer can hold after a write outside of it, beside what the
\* call computed: nothing, or a lone marker
Clobbered == {<<>>, <<36>>}

InitPrint ==
  /\ dict = CD_new
  /\ shadow = [k \in DictKeys |-> NAN]
  /\ last = NoCall
  /\ errmsg = NoMessage
  /\ result = NAN
  /\ input = <<>>
  /\ tokens = <<>>
  /\ \E n \in 1..MaxPrintNodes : tree \in TreesOfSize(n)
  /\ pc = "print"
  /\ env0 = dict
  /\ allocated = 0
  /\ nodes = ET_count(tree)
  /\ consumes = 0
  /\ line = <<>>
  /\ buf = <<>>
  /\ buf_sz \in 1..MaxBuf
  /\ written = {}
  /\ length = 0
  /\ printed = <<>>
  /\ entered = 0

\* length = ET_tree2string(tree, buf, buf_sz).  A write outside the buffers
\* is undefined behaviour: what the buffer holds and what is returned
\* afterwards is then any of the outcomes
DoPrint ==
  /\ pc = "print"
  /\ ET_tree2string(tree, buf_sz).exact
  /\ written' = ET_tree2string(tree, buf_sz).lo..ET_tree2string(tree, buf_sz).hi
  /\ IF ET_tree2string(tree, buf_sz).lo < 0
     THEN /\ buf' \in Clobbered \cup {ET_tree2string(tree, buf_sz).str}
          /\ length' \in {ET_tree2string(tree, buf_sz).ret, Len(buf')}
     ELSE /\ buf' = ET_tree2string(tree, buf_sz).str
          /\ length' = ET_tree2string(tree, buf_sz).ret
  /\ pc' = "printed"
  /\ UNCHANGED <<dict, shadow, last, tokens, input, tree, errmsg, result, env0, allocated,
                 nodes, consumes, line, buf_sz, sessionVars>>

NextPrint == DoPrint

SpecPrint == InitPrint /\ [][NextPrint]_vars

(***************************************************************************)
(* The interactive session (expr_whizz.c, main).  One step is one pass of  *)
(* the while loop: a line is read, tokenized, handled by the variable      *)
(* branch when its first token is a symbol and else parsed, evaluated and  *)
(* printed; the tokens and the tree are freed at loop_end.                 *)
(***************************************************************************)
\* most lines entered in a session
MaxLines == 3

\* x=25
Line_x_is_25 == <<120, 61, 50, 53>>

\* x
Line_x == <<120>>

\* x*4
Line_x_times_4 == <<120, 42, 52>>

\* x = x+3
Line_x_is_x_plus_3 == <<120, 32, 61, 32, 120, 43, 51>>

\* 0 + (x = x + 1)
Line_increment == <<48, 32, 43, 32, 40, 120, 32, 61, 32, 120, 32, 43, 32, 49, 41>>

\* (x = 1)
Line_paren_x_is_1 == <<40, 120, 32, 61, 32, 49, 41>>

\* (x = 25)
Line_paren_x_is_25 == <<40, 120, 32, 61, 32, 50, 53, 41>>

\* the lines of the README transcript and of the claims, then 3+2, the
\* empty line, $, 2 + and 0 + y
SessionLines ==
  {Line_x_is_25, Line_x, Line_x_times_4, Line_x_is_x_plus_3, Line_increment,
   Line_paren_x_is_1, Line_paren_x_is_25, <<51, 43, 50>>, <<>>, <<36>>, <<50, 32, 43>>,
   <<48, 32, 43, 32, 121>>}

\* sizeof(expr_buf)
ExprBufSize == 1024

\* what one pass of the loop leaves: the dictionary, what was printed, the
\* message buffer, what ET_tree2string left, whether the pass is tracked
\* exactly
Pass(d, out, msg, pr, ex) == [vars |-> d, printed |-> out, errmsg |-> msg, print |-> pr, exact |-> ex]

NothingPrinted == <<>>

\* no call of ET_tree2string
NoPrint == Printed(<<>>, 0, 0, -1, TRUE)

\* the branch of main for a line whose first token is a symbol.  TOK_next
\* does not consume, so every test below reads the same front token
VariableBranch(toks, d, msg) ==
  IF TOK_next_type(toks) = "TOK_EQUAL"
  THEN IF TOK_next_type(toks) = "TOK_VALUE"
       THEN Pass(CD_store(d, TOK_next(toks)[2], TOK_next(toks)[2]),
                 <<"Variable set to", TOK_next(toks)[2], TOK_next(toks)[2]>>, msg, NoPrint, TRUE)
       ELSE IF TOK_next_type(toks) = "TOK_SYMBOL"
       THEN IF CD_contains(d, TOK_next(toks)[2])
            THEN Pass(CD_store(d, TOK_next(toks)[2], CD_retrieve(d, TOK_next(toks)[2])),
                      <<"Variable set to", TOK_next(toks)[2],
                        CD_retrieve(d, TOK_next(toks)[2])>>, msg, NoPrint, TRUE)
            ELSE Pass(d, <<"Unknown variable", TOK_next(toks)[2]>>, msg, NoPrint, TRUE)
       ELSE Pass(d, <<"Expected a number or variable name after '='">>, msg, NoPrint, TRUE)
  ELSE IF CD_contains(d, TOK_next(toks)[2])
  THEN Pass(d, <<"Variable is", TOK_next(toks)[2], CD_retrieve(d, TOK_next(toks)[2])>>, msg,
            NoPrint, TRUE)
  ELSE Pass(d, <<"Unknown variable", TOK_next(toks)[2]>>, msg, NoPrint, TRUE)

\* printf("%s  ==> %g\n", expr_buf, ET_evaluate(tree, vars, ...)): first is
\* what the evaluation in the isnan test left, second what the evaluation
\* in the printf leaves, pr what ET_tree2string left in expr_buf
PrintResult(t, first, second, pr) ==
  Pass(second.vars, <<"==>", second.value>>, second.errmsg, pr,
       first.exact /\ second.exact /\ pr.exact)

\* main after the first evaluation
AfterEvaluate(t, first) ==
  IF ~first.exact THEN Pass(first.vars, NothingPrinted, first.errmsg, NoPrint, FALSE)
  ELSE IF isnan(first.value)
  THEN Pass(first.vars, <<"error", first.errmsg>>, first.errmsg, NoPrint, TRUE)
  ELSE PrintResult(t, first, ET_evaluate(t, first.vars, first.errmsg),
                   ET_tree2string(t, ExprBufSize))

\* main after Parse
AfterParse(p, d) ==
  IF p.tree = NULL THEN Pass(d, <<"error", p.errmsg>>, p.errmsg, NoPrint, TRUE)
  ELSE AfterEvaluate(p.tree, ET_evaluate(p.tree, d, p.errmsg))

\* main after TOK_tokenize_input
AfterTokenize(t, d) ==
  IF ~t.exact THEN Pass(d, NothingPrinted, t.errmsg, NoPrint, FALSE)
  ELSE IF t.failed THEN Pass(d, <<"error", t.errmsg>>, t.errmsg, NoPrint, TRUE)
  ELSE IF Len(t.tokens) = 0 THEN Pass(d, NothingPrinted, t.errmsg, NoPrint, TRUE)
  ELSE IF TOK_next_type(t.tokens) = "TOK_SYMBOL" THEN VariableBranch(t.tokens, d, t.errmsg)
  ELSE AfterParse(Parse(t.tokens, t.errmsg), d)

\* one pass of the loop for a line that is not "quit"
LoopBody(str, d) ==
  IF Len(str) = 0 THEN Pass(d, NothingPrinted, NoMessage, NoPrint, TRUE)
  ELSE AfterTokenize(TOK_tokenize_input(str, NoMessage), d)

InitSession ==
  /\ dict = CD_new
  /\ shadow = [k \in DictKeys |-> NAN]
  /\ last = NoCall
  /\ errmsg = NoMessage
  /\ result = NAN
  /\ input = <<>>
  /\ tokens = <<>>
  /\ tree = NULL
  /\ pc = "prompt"
  /\ env0 = dict
  /\ allocated = 0
  /\ nodes = 0
  /\ consumes = 0
  /\ line = <<>>
  /\ buf = <<>>
  /\ buf_sz = ExprBufSize
  /\ written = {}
  /\ length = 0
  /\ printed = NothingPrinted
  /\ entered = 0

\* input = readline("\nExpr? ") and the pass of the loop for it; env0 keeps
\* the dictionary as it was at the prompt
EnterLine(str) ==
  /\ pc = "prompt"
  /\ entered < MaxLines
  /\ LoopBody(str, dict).exact
  /\ line' = str
  /\ env0' = dict
  /\ dict' = LoopBody(str, dict).vars
  /\ allocated' = allocated + (LoopBody(str, dict).vars.num_stored - dict.num_stored)
  /\ printed' = LoopBody(str, dict).printed
  /\ errmsg' = LoopBody(str, dict).errmsg
  /\ IF LoopBody(str, dict).print.hi >= 0
     THEN /\ buf' = LoopBody(str, dict).print.str
          /\ written' = LoopBody(str, dict).print.lo..LoopBody(str, dict).print.hi
          /\ length' = LoopBody(str, dict).print.ret
     ELSE UNCHANGED <<buf, written, length>>
  /\ entered' = entered + 1
  /\ UNCHANGED <<shadow, last, tokens, input, tree, result, pc, nodes, consumes, buf_sz>>

NextSession == \E str \in SessionLines : EnterLine(str)

SpecSession == InitSession /\ [][NextSession]_vars

(***************************************************************************)
(* Claims about the dictionary.                                            *)
(***************************************************************************)
Present == {k \in DictKeys : ~isnan(shadow[k])}

\* C9: the dictionary is a map across resizes: for every key, retrieve
\* returns the value last stored and not deleted since (NAN when there is
\* none), contains is true exactly for those keys, size counts them; and a
\* store of a new key that brings the load factor above 0.6 doubles the
\* capacity
C9_DictionaryIsMap ==
  /\ \A k \in DictKeys :
       /\ CD_retrieve(dict, k) = shadow[k]
       /\ CD_contains(dict, k) <=> ~isnan(shadow[k])
  /\ CD_size(dict) = Cardinality(Present)
  /\ (last.op = "store" /\ ~isnan(last.value) /\ last.absent
      /\ 10 * (last.load + 1) > 6 * last.capacity)
     => CD_capacity(dict) = 2 * last.capacity

\* a store has just doubled the capacity while four other keys were stored
C9_Witness ==
  /\ last.op = "store"
  /\ CD_capacity(dict) = 2 * last.capacity
  /\ Cardinality(Present) = 5
  /\ \E k \in Present : shadow[k] = Num(2)

\* the number of probes from the hash of key to slot index
ProbeDistance(d, key, index) ==
  (index + d.capacity - CD_hash(key, d.capacity)) % d.capacity

\* C10: a delete changes the lookup of no other key, and a store of the
\* deleted key right after it makes retrieve return the new value and
\* changes the lookup of no other key
C10_Step ==
  /\ last'.op = "delete" =>
       \A k \in DictKeys \ {last'.key} : CD_retrieve(dict', k) = CD_retrieve(dict, k)
  /\ (last'.op = "store" /\ last'.afterDelete /\ ~isnan(last'.value)) =>
       /\ CD_retrieve(dict', last'.key) = last'.value
       /\ \A k \in DictKeys \ {last'.key} : CD_retrieve(dict', k) = CD_retrieve(dict, k)

C10_TombstonesKeepProbes == [][C10_Step]_vars

\* key k was deleted and stored again, and another stored key's probe
\* sequence passes through the slot k had
C10_Witness ==
  /\ last.op = "store"
  /\ last.afterDelete
  /\ ~isnan(last.value)
  /\ last.delSlot # -1
  /\ last.capacity = dict.capacity
  /\ dict.slot[last.delSlot].status = "SLOT_DELETED"
  /\ \E k \in Present \ {last.key} :
       LET index == FindSlot(dict, k, CD_hash(k, dict.capacity), 0)
       IN ProbeDistance(dict, k, last.delSlot) < ProbeDistance(dict, k, index)

\* ---------------------------------------------------------------------------
\* Claims about the parser and the evaluator (specification Spec)
\* ---------------------------------------------------------------------------

AllSymbols == {Str_a, Str_b, Str_x, Str_y, Str_pi}

\* the tree was built by Parse from the token list input
ParsedInput == input # <<>> /\ pc \in {"evaluate", "evaluated"}

IsOperand(tok) == tok[1] \in {"TOK_VALUE", "TOK_SYMBOL"}

LeafOf(tok) == IF tok[1] = "TOK_VALUE" THEN ET_value(tok[2]) ELSE ET_symbol(tok[2])

OpOf(tok) ==
  CASE tok[1] = "TOK_PLUS" -> "OP_ADD"
    [] tok[1] = "TOK_MINUS" -> "OP_SUB"
    [] tok[1] = "TOK_MULTIPLY" -> "OP_MUL"
    [] tok[1] = "TOK_DIVIDE" -> "OP_DIV"
    [] tok[1] = "TOK_POWER" -> "OP_POWER"
    [] OTHER -> "OP_ASSIGN"

\* operand (operator operand)*, every operator taken from ops
IsChain(seq, ops) ==
  /\ Len(seq) % 2 = 1
  /\ \A i \in 1..Len(seq) : IF i % 2 = 1 THEN IsOperand(seq[i]) ELSE seq[i][1] \in ops

\* ((a op b) op c) op ... over the first n tokens of seq
RECURSIVE LeftFold(_, _)
LeftFold(seq, n) ==
  IF n = 1 THEN LeafOf(seq[1])
  ELSE ET_node(OpOf(seq[n - 1]), LeftFold(seq, n - 2), LeafOf(seq[n]))

\* a op (b op (c op ...)) over the tokens of seq from position i on
RECURSIVE RightFold(_, _)
RightFold(seq, i) ==
  IF i = Len(seq) THEN LeafOf(seq[i])
  ELSE ET_node(OpOf(seq[i + 1]), LeafOf(seq[i]), RightFold(seq, i + 2))

\* C1: evaluating Assign(Symbol s, r), where r evaluates to a non-NaN value
\* v, stores v under s and returns v; evaluating Symbol s afterwards returns
\* v, also after other symbols were stored or deleted in between.
C1_AssignThenLookup ==
  (/\ pc = "evaluated"
   /\ NodeType(tree) = "OP_ASSIGN"
   /\ NodeType(Left(tree)) = "SYMBOL"
   /\ ~isnan(ET_evaluate(Right(tree), env0, NoMessage).value))
  => LET s == Left(tree)[2]
         v == ET_evaluate(Right(tree), env0, NoMessage).value
     IN /\ result = v
        /\ CD_retrieve(dict, s) = v
        /\ ET_evaluate(ET_symbol(s), dict, errmsg).value = v
        /\ \A k \in AllSymbols \ {s} :
             /\ ET_evaluate(ET_symbol(s), CD_store(dict, k, Num(1)), errmsg).value = v
             /\ ET_evaluate(ET_symbol(s), CD_delete(dict, k), errmsg).value = v
             /\ ET_evaluate(ET_symbol(s),
                            CD_store(CD_delete(CD_store(dict, k, Num(1)), k), k, Num(2)),
                            errmsg).value = v

\* x = x - y was parsed and evaluated with x = 2, y = 4
C1_Witness ==
  /\ pc = "evaluated"
  /\ input = <<SymbolToken(Str_x), Token("TOK_EQUAL"), SymbolToken(Str_x), Token("TOK_MINUS"),
               SymbolToken(Str_y)>>
  /\ tree = ET_node("OP_ASSIGN", ET_symbol(Str_x),
                    ET_node("OP_SUB", ET_symbol(Str_x), ET_symbol(Str_y)))
  /\ result = Num(-2)
  /\ CD_retrieve(dict, Str_x) = Num(-2)
  /\ CD_retrieve(env0, Str_x) = Num(2)

\* C2: evaluating a Symbol node whose name is not bound returns NaN and
\* writes "Undefined variable: <name>" to the error buffer.
C2_UndefinedVariableReported ==
  (/\ pc = "evaluated"
   /\ NodeType(tree) = "SYMBOL"
   /\ ~CD_contains(env0, tree[2]))
  => /\ isnan(result)
     /\ errmsg = <<"Undefined variable: ", tree[2]>>

\* C3: + - and * / are left-associative and ^ is right-associative; a chain
\* of k operators of one left-associative level has depth k + 1; 10 - 2 - 3
\* is 5, 10 / 2 / 5 is 1 and 2 ^ 3 ^ 2 is 512.
C3_Associativity ==
  /\ (pc # "tokens" /\ Len(input) > 0
      /\ (IsChain(input, {"TOK_PLUS", "TOK_MINUS"}) \/ IsChain(input, {"TOK_MULTIPLY", "TOK_DIVIDE"})))
     => /\ tree = LeftFold(input, Len(input))
        /\ ET_depth(tree) = ((Len(input) - 1) \div 2) + 1
  /\ (pc # "tokens" /\ Len(input) > 0 /\ IsChain(input, {"TOK_POWER"}))
     => tree = RightFold(input, 1)
  /\ (pc = "evaluated"
      /\ input = <<V(10), Token("TOK_MINUS"), V(2), Token("TOK_MINUS"), V(3)>>)
     => result = Num(5)
  /\ (pc = "evaluated"
      /\ input = <<V(10), Token("TOK_DIVIDE"), V(2), Token("TOK_DIVIDE"), V(5)>>)
     => result = Num(1)
  /\ (pc = "evaluated"
      /\ input = <<V(2), Token("TOK_POWER"), V(3), Token("TOK_POWER"), V(2)>>)
     => result = Num(512)

\* 10 - 2 - 3 - 4 was parsed to a tree of depth 4 and evaluated to 1
C3_Witness ==
  /\ pc = "evaluated"
  /\ input = <<V(10), Token("TOK_MINUS"), V(2), Token("TOK_MINUS"), V(3), Token("TOK_MINUS"),
               V(4)>>
  /\ ET_depth(tree) = 4
  /\ NodeType(Left(tree)) = "OP_SUB"
  /\ result = Num(1)

ArithTypes == {"OP_ADD", "OP_SUB", "OP_MUL", "OP_DIV", "OP_POWER", "UNARY_NEGATE"}

\* the direct operands of an interior node
Operands(t) == IF NodeType(t) = "UNARY_NEGATE" THEN {Left(t)} ELSE {Left(t), Right(t)}

\* no node has a looser-binding operator as a direct operand
RECURSIVE PrecedenceRespected(_)
PrecedenceRespected(t) ==
  IF IsLeaf(t) THEN TRUE
  ELSE /\ \A c \in Operands(t) :
            /\ PrecedenceRespected(c)
            /\ NodeType(t) \in {"OP_MUL", "OP_DIV"} => NodeType(c) \notin {"OP_ADD", "OP_SUB"}
            /\ NodeType(t) = "OP_POWER"
                 => NodeType(c) \notin {"OP_ADD", "OP_SUB", "OP_MUL", "OP_DIV"}
            /\ NodeType(t) = "UNARY_NEGATE" => NodeType(c) \notin BinaryOps

HasType(seq, types) == \E i \in 1..Len(seq) : seq[i][1] \in types

\* C4: in a token list without parentheses and "=", unary minus binds
\* tighter than ^, ^ tighter than * and /, and these tighter than + and -:
\* 2 + 3 * 2 is Add(2, Mul(3, 2)) and -1 ^ 2 is Power(Negate(1), 2).
C4_Precedence ==
  /\ (ParsedInput /\ ~HasType(input, {"TOK_OPEN_PAREN", "TOK_CLOSE_PAREN", "TOK_EQUAL"}))
     => PrecedenceRespected(tree)
  /\ (pc # "tokens"
      /\ input = <<V(2), Token("TOK_PLUS"), V(3), Token("TOK_MULTIPLY"), V(2)>>)
     => tree = ET_node("OP_ADD", ET_value(Num(2)),
                       ET_node("OP_MUL", ET_value(Num(3)), ET_value(Num(2))))
  /\ (pc # "tokens" /\ input = <<Token("TOK_MINUS"), V(1), Token("TOK_POWER"), V(2)>>)
     => tree = ET_node("OP_POWER", ET_node("UNARY_NEGATE", ET_value(Num(1)), NULL),
                       ET_value(Num(2)))

\* - 1 ^ 2 was parsed to Power(Negate(1), 2) and evaluated to 1
C4_Witness ==
  /\ pc = "evaluated"
  /\ input = <<Token("TOK_MINUS"), V(1), Token("TOK_POWER"), V(2)>>
  /\ tree = ET_node("OP_POWER", ET_node("UNARY_NEGATE", ET_value(Num(1)), NULL),
                    ET_value(Num(2)))
  /\ result = Num(1)

\* some arithmetic node of t has an Assign node as a direct operand
RECURSIVE AssignIsOperand(_)
AssignIsOperand(t) ==
  IF IsLeaf(t) THEN FALSE
  ELSE \E c \in Operands(t) :
         \/ NodeType(t) \in ArithTypes /\ NodeType(c) = "OP_ASSIGN"
         \/ AssignIsOperand(c)

\* C5: "=" has the lowest precedence: an Assign node is an operand of an
\* arithmetic node only when the assignment was written inside parentheses.
C5_AssignLowestPrecedence ==
  (ParsedInput /\ AssignIsOperand(tree)) => HasType(input, {"TOK_OPEN_PAREN"})

\* the tokens of seq after the first four
Rest(seq) == SubSeq(seq, 5, Len(seq))

IsChainedAssign(seq) ==
  /\ Len(seq) > 4
  /\ \E prefix \in ChainPrefixes : SubSeq(seq, 1, 4) = prefix
  /\ Parse(Rest(seq), NoMessage).tree # NULL
  /\ Parse(Rest(seq), NoMessage).tokens = <<>>

\* C6 as stated: s1 = s2 = e parses to Assign(s1, Assign(s2, e)), and
\* evaluating it binds s1 and s2 to the value of e, returns that value and
\* changes no other binding.
C6_ChainedAssign ==
  (pc # "tokens" /\ IsChainedAssign(input))
  => LET e == Parse(Rest(input), NoMessage).tree
         s1 == input[1][2]
         s2 == input[3][2]
         v == ET_evaluate(e, env0, NoMessage).value
     IN /\ tree = ET_node("OP_ASSIGN", ET_symbol(s1), ET_node("OP_ASSIGN", ET_symbol(s2), e))
        /\ pc = "evaluated"
           => /\ result = v
              /\ CD_contains(dict, s1) /\ CD_retrieve(dict, s1) = v
              /\ CD_contains(dict, s2) /\ CD_retrieve(dict, s2) = v
              /\ \A k \in AllSymbols \ {s1, s2} :
                   /\ CD_contains(dict, k) = CD_contains(env0, k)
                   /\ CD_retrieve(dict, k) = CD_retrieve(env0, k)

\* C6 amended: s1 = s2 = e parses to Assign(s1, Assign(s2, e)); when e
\* evaluates to a non-NaN value v, evaluating the chain binds s1 and s2 to
\* v and returns v, and every binding other than s1 and s2 is what
\* evaluating e alone leaves; when e evaluates to NaN the chain returns NaN
\* and every binding is what evaluating e alone leaves.
C6_ChainedAssignNonNaN ==
  (pc # "tokens" /\ IsChainedAssign(input))
  => LET e == Parse(Rest(input), NoMessage).tree
         s1 == input[1][2]
         s2 == input[3][2]
         after == ET_evaluate(e, env0, NoMessage)
     IN /\ tree = ET_node("OP_ASSIGN", ET_symbol(s1), ET_node("OP_ASSIGN", ET_symbol(s2), e))
        /\ (pc = "evaluated" /\ ~isnan(after.value))
           => /\ result = after.value
              /\ CD_contains(dict, s1) /\ CD_retrieve(dict, s1) = after.value
              /\ CD_contains(dict, s2) /\ CD_retrieve(dict, s2) = after.value
              /\ \A k \in AllSymbols \ {s1, s2} :
                   /\ CD_contains(dict, k) = CD_contains(after.vars, k)
                   /\ CD_retrieve(dict, k) = CD_retrieve(after.vars, k)
        /\ (pc = "evaluated" /\ isnan(after.value))
           => /\ isnan(result)
              /\ \A k \in AllSymbols :
                   /\ CD_contains(dict, k) = CD_contains(after.vars, k)
                   /\ CD_retrieve(dict, k) = CD_retrieve(after.vars, k)

\* a = b = y was parsed and evaluated with y = 4 and a, b unbound
C6_Witness ==
  /\ pc = "evaluated"
  /\ input = <<SymbolToken(Str_a), Token("TOK_EQUAL"), SymbolToken(Str_b), Token("TOK_EQUAL"),
               SymbolToken(Str_y)>>
  /\ ~CD_contains(env0, Str_a) /\ ~CD_contains(env0, Str_b)
  /\ CD_retrieve(dict, Str_a) = Num(4)
  /\ CD_retrieve(dict, Str_b) = Num(4)
  /\ result = Num(4)

\* C7: 3 = 4 parses to Assign(3, 4); evaluating an Assign whose left child
\* is not a Symbol returns NaN, writes "Left side of assignment must be a
\* symbol" and stores nothing beyond what evaluating the right child stores.
C7_AssignLeftNotSymbol ==
  /\ (pc # "tokens" /\ input = <<V(3), Token("TOK_EQUAL"), V(4)>>)
     => tree = ET_node("OP_ASSIGN", ET_value(Num(3)), ET_value(Num(4)))
  /\ (pc = "evaluated" /\ NodeType(tree) = "OP_ASSIGN" /\ NodeType(Left(tree)) # "SYMBOL")
     => /\ isnan(result)
        /\ errmsg = <<"Left side of assignment must be a symbol">>
        /\ \A k \in AllSymbols :
             LET right == ET_evaluate(Right(tree), env0, NoMessage).vars
             IN /\ CD_contains(dict, k) = CD_contains(right, k)
                /\ CD_retrieve(dict, k) = CD_retrieve(right, k)

\* C8: an evaluation that wrote an error message returns NaN.
C8_ErrorsPropagate ==
  (pc = "evaluated" /\ errmsg # NoMessage) => isnan(result)

\* ---------------------------------------------------------------------------
\* Further claims about the dictionary (specification SpecDict)
\* ---------------------------------------------------------------------------

\* the first slot of the probe sequence from hash that is not in use with
\* another key, or -1
RECURSIVE FirstInsertionTarget(_, _, _, _)
FirstInsertionTarget(d, key, hash, i) ==
  IF i >= d.capacity THEN -1
  ELSE LET index == (hash + i) % d.capacity
       IN IF d.slot[index].status = "SLOT_IN_USE" /\ d.slot[index].key # key
          THEN FirstInsertionTarget(d, key, hash, i + 1)
          ELSE index

\* a store of a key that is absent, whose probe sequence meets a Deleted
\* slot first and which does not rehash
StoreMeetsTombstone ==
  /\ last'.op = "store"
  /\ ~isnan(last'.value)
  /\ ~CD_contains(dict, last'.key)
  /\ dict'.capacity = dict.capacity
  /\ LET target == FirstInsertionTarget(dict, last'.key, CD_hash(last'.key, dict.capacity), 0)
     IN target # -1 /\ dict.slot[target].status = "SLOT_DELETED"

C11_Step ==
  StoreMeetsTombstone
  => LET target == FirstInsertionTarget(dict, last'.key, CD_hash(last'.key, dict.capacity), 0)
     IN /\ dict'.slot[target].status = "SLOT_IN_USE"
        /\ dict'.slot[target].key = last'.key

\* C11: a store of an absent key whose probe sequence meets a Deleted slot
\* before any Unused slot writes the entry into that Deleted slot.
C11_TombstoneReused == [][C11_Step]_vars

\* the (key, value) pairs held by the in-use slots
Entries(d) ==
  {<<d.slot[i].key, d.slot[i].value>> : i \in {j \in 0..(d.capacity - 1) : d.slot[j].status = "SLOT_IN_USE"}}

\* every in-use entry sits in the probe sequence from its hash, with only
\* in-use slots before it
PlacedByProbing(d) ==
  \A i \in 0..(d.capacity - 1) :
    d.slot[i].status = "SLOT_IN_USE"
    => LET hash == CD_hash(d.slot[i].key, d.capacity)
           distance == ((i + d.capacity) - hash) % d.capacity
       IN \A n \in 0..distance : d.slot[(hash + n) % d.capacity].status = "SLOT_IN_USE"

\* the step inserts a new key and leaves the load factor above 0.6
InsertAboveThreshold ==
  /\ last'.op = "store"
  /\ ~isnan(last'.value)
  /\ ~CD_contains(dict, last'.key)
  /\ 10 * (dict.num_stored + 1 + dict.num_deleted) > 6 * dict.capacity

C12_Step ==
  pc' = "dict" =>
  /\ IF InsertAboveThreshold
     THEN /\ dict'.capacity = 2 * dict.capacity
          /\ dict'.num_deleted = 0
          /\ dict'.num_stored = dict.num_stored + 1
          /\ \A i \in 0..(dict'.capacity - 1) : dict'.slot[i].status # "SLOT_DELETED"
          /\ PlacedByProbing(dict')
          /\ Entries(dict') = Entries(dict) \cup {<<last'.key, last'.value>>}
     ELSE dict'.capacity = dict.capacity
  /\ IsPow2(dict'.capacity) /\ dict'.capacity >= DEFAULT_DICT_CAPACITY
  /\ 10 * (dict'.num_stored + dict'.num_deleted) <= 6 * dict'.capacity

\* C12: the capacity starts at 8; a store that inserts a new key and leaves
\* (stored + deleted) / capacity above 0.6 doubles it once, re-places every
\* in-use entry by probing from its hash modulo the new capacity, leaves no
\* Deleted slot, resets deleted and keeps stored; every other step leaves
\* the capacity unchanged; the capacity is 8 * 2^n and the load factor is
\* at most 0.6 after every step.
C12_CapacityOnlyDoubles ==
  (pc = "dict" => dict.capacity = DEFAULT_DICT_CAPACITY) /\ [][C12_Step]_vars

\* a store took the capacity from 8 to 16 and two tombstones were discarded
C12_Witness ==
  /\ last.op = "store"
  /\ last.capacity = DEFAULT_DICT_CAPACITY
  /\ last.load = 4
  /\ dict.capacity = 2 * DEFAULT_DICT_CAPACITY
  /\ dict.num_stored = 3
  /\ dict.num_deleted = 0

\* C13: every key copy made by store is released once, by the delete that
\* removes the key or by the teardown: after CD_free no key copy remains
\* allocated.
C13_KeyCopiesReleased == pc = "freed" => allocated = 0

(***************************************************************************)
(* Claims about the failures of Parse (specification Spec).                *)
(***************************************************************************)
\* Parse has run on the token list input
ParseCalled == input # <<>> /\ pc # "tokens"

\* C14: when assignment has parsed a complete expression from the front of
\* the token list and the next token is not End, Parse returns no tree,
\* leaves no node of the tree it built allocated, consumes nothing more and
\* writes "Syntax error on token <NAME>", NAME naming the first unconsumed
\* token
C14_TrailingTokenIsSyntaxError ==
  (/\ ParseCalled
   /\ TOK_next_type(input) # "TOK_END"
   /\ assignment(input, NoMessage).tree # NULL
   /\ TOK_next_type(assignment(input, NoMessage).tokens) # "TOK_END")
  => /\ tree = NULL
     /\ nodes = 0
     /\ tokens = assignment(input, NoMessage).tokens
     /\ errmsg = <<"Syntax error on token ", TT_to_str(Head(tokens)[1])>>

\* Parse has failed on 3 + 2 ) with "Syntax error on token CLOSE_PAREN"
C14_Witness ==
  /\ ParseCalled
  /\ input = <<V(3), Token("TOK_PLUS"), V(2), Token("TOK_CLOSE_PAREN")>>
  /\ tree = NULL
  /\ nodes = 0
  /\ errmsg = <<"Syntax error on token ", "CLOSE_PAREN">>

\* the tokens after which the parser calls a rule that begins with primary
BeforeOperand ==
  {"TOK_PLUS", "TOK_MINUS", "TOK_MULTIPLY", "TOK_DIVIDE", "TOK_POWER", "TOK_EQUAL",
   "TOK_OPEN_PAREN"}

\* the tokens an operand begins with
OperandStart == {"TOK_VALUE", "TOK_SYMBOL", "TOK_OPEN_PAREN", "TOK_MINUS"}

\* the number of tokens Parse has consumed
Consumed == Len(input) - Len(tokens)

\* Parse stopped where it expected an operand: before the first token, or
\* after an operator or a "("
StoppedAtOperand ==
  /\ ParseCalled
  /\ TOK_next_type(input) # "TOK_END"
  /\ Consumed > 0 => input[Consumed][1] \in BeforeOperand

\* the failing token lists of test_parse_errors and the token each names
UnexpectedExamples ==
  {<<<<V(2), Token("TOK_PLUS"), Token("TOK_PLUS"), V(3)>>, "PLUS">>,
   <<<<V(2), Token("TOK_PLUS"), Token("TOK_MULTIPLY"), V(3)>>, "MULTIPLY">>,
   <<<<V(3), Token("TOK_PLUS"), Token("TOK_CLOSE_PAREN"), V(2)>>, "CLOSE_PAREN">>,
   <<<<V(3), Token("TOK_PLUS"), Token("TOK_OPEN_PAREN"), V(2), Token("TOK_MULTIPLY")>>,
     "(end)">>}

\* C15: when Parse stops where an operand is expected, the front token is
\* not a Number, a Symbol, "(" or "-", no tree is returned and the message is
\* "Unexpected token <NAME>", NAME naming the front token and "(end)" naming
\* the end of the list
C15_UnexpectedToken ==
  /\ StoppedAtOperand
     => /\ TOK_next_type(tokens) \notin OperandStart
        /\ tree = NULL
        /\ errmsg = <<"Unexpected token ", TT_to_str(TOK_next_type(tokens))>>
        /\ TOK_next_type(tokens) = "TOK_END" => errmsg[2] = "(end)"
  /\ \A ex \in UnexpectedExamples :
       (ParseCalled /\ input = ex[1]) => (tree = NULL /\ errmsg = <<"Unexpected token ", ex[2]>>)

\* Parse has failed on 3 + ( 2 * with "Unexpected token (end)"
C15_Witness ==
  /\ StoppedAtOperand
  /\ input = <<V(3), Token("TOK_PLUS"), Token("TOK_OPEN_PAREN"), V(2), Token("TOK_MULTIPLY")>>
  /\ tokens = <<>>
  /\ tree = NULL
  /\ errmsg = <<"Unexpected token ", "(end)">>

\* r is what assignment returned for the tokens after a "(": a tree, and a
\* front token that is not ")"
NotClosed(r) == r.tree # NULL /\ TOK_next_type(r.tokens) # "TOK_CLOSE_PAREN"

\* Parse has consumed the "(" at position q, and the expression after it is
\* complete and not followed by ")"
UnmatchedAt(q) ==
  /\ q <= Consumed
  /\ input[q][1] = "TOK_OPEN_PAREN"
  /\ NotClosed(assignment(SubSeq(input, q + 1, Len(input)), NoMessage))

\* C16: an unmatched "(" fails with "Expected ')'": when Parse has consumed
\* a "(" and parsed a complete expression after it, and the next token is
\* not ")" (the end of the list included), Parse returns no tree, leaves no
\* node allocated and writes exactly "Expected ')'"
C16_UnmatchedParen ==
  (/\ ParseCalled
   /\ TOK_next_type(input) # "TOK_END"
   /\ \E q \in 1..Len(input) : UnmatchedAt(q))
  => /\ tree = NULL
     /\ nodes = 0
     /\ errmsg = <<"Expected ')'">>

\* Parse has failed on ( 2 + 3 * 1 at the end of the list, and on ( 2 x at
\* a token
C16_Witness ==
  /\ ParseCalled
  /\ UnmatchedAt(1)
  /\ tree = NULL
  /\ nodes = 0
  /\ errmsg = <<"Expected ')'">>
  /\ \/ /\ input = <<Token("TOK_OPEN_PAREN"), V(2), Token("TOK_PLUS"), V(3),
                     Token("TOK_MULTIPLY"), V(1)>>
        /\ tokens = <<>>
     \/ /\ input = <<Token("TOK_OPEN_PAREN"), V(2), SymbolToken(Str_x)>>
        /\ tokens = <<SymbolToken(Str_x)>>

\* C17: Parse never leaks: when Parse returns no tree, no node it allocated
\* is still allocated; when it returns a tree, the nodes still allocated are
\* exactly the nodes of that tree
C17_ParseNeverLeaks ==
  pc # "tokens"
  => /\ nodes >= 0
     /\ tree = NULL => nodes = 0
     /\ tree # NULL => nodes = ET_count(tree)

\* Parse has failed on 3 + ( 2 * after building the leaves 3 and 2
C17_Witness ==
  /\ ParseCalled
  /\ input = <<V(3), Token("TOK_PLUS"), Token("TOK_OPEN_PAREN"), V(2), Token("TOK_MULTIPLY")>>
  /\ Cardinality({i \in 1..Consumed : input[i][1] = "TOK_VALUE"}) = 2
  /\ tree = NULL
  /\ nodes = 0

\* Parse has run on a list of zero tokens or on a list that begins with End
ParsedEmpty == last.op = "parse" /\ TOK_next_type(input) = "TOK_END"

\* C18: empty input is not an error: on a list of zero tokens or one whose
\* first token is End, Parse returns no tree, writes nothing to the message
\* buffer and consumes no token; the absent tree has depth 0 and evaluates
\* to 0, and evaluating it changes neither the message nor the variables
C18_EmptyInputIsNotAnError ==
  ParsedEmpty
  => /\ tree = NULL
     /\ nodes = 0
     /\ tokens = input
     /\ errmsg = NoMessage
     /\ ET_depth(tree) = 0
     /\ pc = "absent" => (result = PosZero /\ dict = env0)

\* Parse has returned no tree for the list End 2 and for the empty list,
\* and evaluating the absent tree gave 0
C18_Witness ==
  /\ ParsedEmpty
  /\ pc = "absent"
  /\ result = PosZero
  /\ tokens = input
  /\ input \in {<<>>, <<Token("TOK_END"), V(2)>>}

(***************************************************************************)
(* Claims about the token list (specification SpecTokens).                 *)
(***************************************************************************)
\* the token at the front after n consumes of the list input
FrontAfter(n) == IF n < Len(input) THEN input[n + 1] ELSE Token("TOK_END")

\* the list after n consumes of the list input
ListAfter(n) == IF n < Len(input) THEN SubSeq(input, n + 1, Len(input)) ELSE <<>>

\* C19: the token list is consumed front to back: after i - 1 consumes of a
\* list t1..tn the peeks TOK_next and TOK_next_type return ti and its type,
\* each consume removes the front token only, and once the list is
\* exhausted every peek returns End and every consume leaves the list empty
C19_ConsumedFrontToBack ==
  /\ tokens = ListAfter(consumes)
  /\ TOK_next(tokens) = FrontAfter(consumes)
  /\ TOK_next_type(tokens) = FrontAfter(consumes)[1]
  /\ consumes >= Len(input)
     => /\ tokens = <<>>
        /\ TOK_next(tokens) = Token("TOK_END")
        /\ TOK_next_type(tokens) = "TOK_END"
        /\ TOK_consume(tokens) = <<>>

\* a list of three tokens has been consumed five times
C19_Witness ==
  /\ pc = "consume"
  /\ Len(input) = 3
  /\ input[1] # input[3]
  /\ consumes = 5
  /\ tokens = <<>>
  /\ TOK_next_type(tokens) = "TOK_END"

(***************************************************************************)
(* Claims about the tokenizer (specification SpecTokenize).                *)
(***************************************************************************)
IsSymbolChar(c) == isalpha(c) \/ isdigit(c) \/ c = 95

\* the 1-based positions where a symbol of more than 31 characters begins:
\* a letter that follows no symbol character, with at least 31 symbol
\* characters after it
LongSymbolStarts ==
  {s \in 1..(Len(line) - SYMBOL_MAX_SIZE) :
     /\ isalpha(line[s])
     /\ s > 1 => ~IsSymbolChar(line[s - 1])
     /\ \A k \in s..(s + SYMBOL_MAX_SIZE) : IsSymbolChar(line[k])}

\* the least element of a non-empty set of numbers
Least(S) == CHOOSE s \in S : \A t \in S : s <= t

\* TOK_tokenize_input has returned
TokenizeReturned == pc \in {"rejected", "tokens"}

\* C20: tokenizing a line that holds a symbol of more than 31 characters
\* returns no token list and writes "Position <p>: symbol too long", p being
\* the 1-based position of the first character beyond the cap (32 for a
\* symbol that begins at position 1)
C20_SymbolTooLongPosition ==
  (TokenizeReturned /\ LongSymbolStarts # {})
  => /\ pc = "rejected"
     /\ tokens = <<>>
     /\ errmsg = <<"Position ", Least(LongSymbolStarts) + SYMBOL_MAX_SIZE, ": symbol too long">>

\* whitespace, a digit, a letter or one of + - * / ^ ( ) =
IsLexicalChar(c) == isspace(c) \/ isdigit(c) \/ isalpha(c) \/ c \in {43, 45, 42, 47, 94, 40, 41, 61}

\* the line is made of whitespace, digits, operator characters and letters,
\* and no 32 consecutive characters of it are symbol characters with a
\* letter among them: every symbol of the line has at most 31 characters
WellFormedLine ==
  /\ \A i \in 1..Len(line) : IsLexicalChar(line[i])
  /\ \A s \in 1..(Len(line) - SYMBOL_MAX_SIZE) :
       \/ \E k \in s..(s + SYMBOL_MAX_SIZE) : ~IsSymbolChar(line[k])
       \/ \A k \in s..(s + SYMBOL_MAX_SIZE) : ~isalpha(line[k])

\* C21: tokenizing succeeds on every line made only of whitespace, numeric
\* literals, operator characters and symbols of at most 31 characters,
\* whatever the length of the line: a token list is returned and no message
\* is written
C21_WellFormedLineTokenizes ==
  (TokenizeReturned /\ WellFormedLine) => (pc = "tokens" /\ errmsg = NoMessage)

\* the line is one symbol as the claim reads it: a letter or an underscore,
\* then letters, digits and underscores, at most 31 characters in all
SymbolLine ==
  /\ Len(line) \in 1..SYMBOL_MAX_SIZE
  /\ isalpha(line[1]) \/ line[1] = 95
  /\ \A i \in 1..Len(line) : IsSymbolChar(line[i])

\* C22: a symbol may begin with a letter or an underscore: a line that is
\* one such run of letters, digits and underscores tokenizes to a single
\* Symbol token holding the run, and no unexpected-character error
C22_UnderscoreStartsSymbol ==
  (TokenizeReturned /\ SymbolLine)
  => /\ pc = "tokens"
     /\ tokens = <<SymbolToken(line)>>
     /\ errmsg = NoMessage

(***************************************************************************)
(* Claims about the printer (specification SpecPrint).                     *)
(***************************************************************************)
\* the full rendering of a tree: a leaf as its number or name, (-c) for a
\* negation, (l op r) for a binary node
RECURSIVE Rendering(_)
Rendering(t) ==
  IF NodeType(t) = "VALUE" THEN FormatG(t[2])
  ELSE IF NodeType(t) = "SYMBOL" THEN t[2]
  ELSE IF NodeType(t) = "UNARY_NEGATE" THEN <<40, 45>> \o Rendering(Left(t)) \o <<41>>
  ELSE <<40>> \o Rendering(Left(t)) \o <<32, ExprNodeType_to_char(NodeType(t)), 32>>
       \o Rendering(Right(t)) \o <<41>>

\* what the claim requires of a call that has returned: every write inside
\* the buffer, a terminated string whose length is the value returned, the
\* full rendering when it fits and else its leading characters and one "$"
PrintedWithinBuffer ==
  /\ written \subseteq 0..(buf_sz - 1)
  /\ Len(buf) <= buf_sz - 1
  /\ length = Len(buf)
  /\ Len(Rendering(tree)) <= buf_sz - 1 => buf = Rendering(tree)
  /\ Len(Rendering(tree)) > buf_sz - 1
     => /\ Len(buf) = buf_sz - 1
        /\ buf[Len(buf)] = 36
        /\ SubSeq(buf, 1, Len(buf) - 1) = SubSeq(Rendering(tree), 1, buf_sz - 2)

\* C23: ET_tree2string never writes outside the caller's buffer: for every
\* non-empty tree and every buf_sz >= 1 all writes go to indices
\* 0..buf_sz-1, buf is terminated, the value returned is the length of the
\* string in buf, and a rendering that does not fit is cut to its leading
\* characters followed by one "$"
C23_PrintStaysInBuffer == pc = "printed" => PrintedWithinBuffer

(***************************************************************************)
(* Claims about the session.                                               *)
(***************************************************************************)
\* a pass of the loop has run for the line str
Entered(str) == entered > 0 /\ line = str

\* x was bound to n at the prompt where the last line was entered
BoundBefore(n) == CD_contains(env0, Str_x) /\ CD_retrieve(env0, Str_x) = Num(n)

\* x is bound to n now
BoundNow(n) == CD_contains(dict, Str_x) /\ CD_retrieve(dict, Str_x) = Num(n)

\* C24: variables entered at the prompt persist for the session: after the
\* line x=25 the environment binds x to 25; with x bound to 25 the line x
\* reports 25, the line x*4 evaluates to 100 and the line x = x+3 leaves x
\* bound to 28.
C24_VariablesPersist ==
  /\ Entered(Line_x_is_25) => BoundNow(25)
  /\ (Entered(Line_x) /\ BoundBefore(25)) => printed = <<"Variable is", Str_x, Num(25)>>
  /\ (Entered(Line_x_times_4) /\ BoundBefore(25)) => printed = <<"==>", Num(100)>>
  /\ (Entered(Line_x_is_x_plus_3) /\ BoundBefore(25)) => BoundNow(28)

\* the tokens of the last line
LineTokens == TOK_tokenize_input(line, NoMessage)

\* the tree Parse built for the last line
LineTree == Parse(LineTokens.tokens, LineTokens.errmsg)

\* the last line reached the parser, which built a tree for it
ReachedParser ==
  /\ entered > 0
  /\ Len(line) > 0
  /\ ~LineTokens.failed
  /\ Len(LineTokens.tokens) > 0
  /\ TOK_next_type(LineTokens.tokens) # "TOK_SYMBOL"
  /\ LineTree.tree # NULL

\* one evaluation of the tree of the last line, from the environment of the
\* prompt
SingleEvaluation == ET_evaluate(LineTree.tree, env0, LineTree.errmsg)

\* C30: a line that reaches the parser has its side effects applied exactly
\* once: the environment after the line is the one a single evaluation of
\* its tree leaves, and the value printed is the value of that evaluation.
C30_EvaluatedOnce ==
  (ReachedParser /\ ~isnan(SingleEvaluation.value)) =>
    /\ dict = SingleEvaluation.vars
    /\ printed = <<"==>", SingleEvaluation.value>>

(***************************************************************************)
(* The order of evaluation.                                                *)
(***************************************************************************)
ArithmeticOps == {"OP_ADD", "OP_SUB", "OP_MUL", "OP_DIV", "OP_POWER"}

Apply(op, left, right) ==
  CASE op = "OP_ADD" -> Add(left, right)
    [] op = "OP_SUB" -> Sub(left, right)
    [] op = "OP_MUL" -> Mul(left, right)
    [] op = "OP_DIV" -> Div(left, right)
    [] op = "OP_POWER" -> pow(left, right)

\* the tree is s = v for a symbol s and a number v
BindsValue(t) ==
  /\ NodeType(t) = "OP_ASSIGN"
  /\ NodeType(Left(t)) = "SYMBOL"
  /\ NodeType(Right(t)) = "VALUE"

\* the left child evaluated alone, from the dictionary the call started with
LeftAlone == ET_evaluate(Left(tree), env0, NoMessage)

\* the right child evaluated alone, from the dictionary the left child left
RightAfterLeft == ET_evaluate(Right(tree), LeftAlone.vars, LeftAlone.errmsg)

\* C25: for an arithmetic binary node the left child is evaluated completely
\* before the right child: the right child works on the dictionary the left
\* child left, the node leaves the dictionary the right child left, and its
\* value combines the two values; (s = v) op s reads the v just stored, and
\* (s = v) op (s = w) leaves s bound to w.
C25_LeftBeforeRight ==
  (pc = "evaluated" /\ NodeType(tree) \in ArithmeticOps) =>
    /\ dict = RightAfterLeft.vars
    /\ result = Apply(NodeType(tree), LeftAlone.value, RightAfterLeft.value)
    /\ (BindsValue(Left(tree)) /\ Right(tree) = Left(Left(tree))) =>
         result = Apply(NodeType(tree), Right(Left(tree))[2], Right(Left(tree))[2])
    /\ (BindsValue(Left(tree)) /\ BindsValue(Right(tree))
        /\ Left(Right(tree)) = Left(Left(tree))) =>
         CD_retrieve(dict, Left(Left(tree))[2]) = Right(Right(tree))[2]

\* (x = 1) + x was evaluated with x unbound and returned 2
C25_Witness ==
  /\ pc = "evaluated"
  /\ tree = ET_node("OP_ADD", ET_node("OP_ASSIGN", ET_symbol(Str_x), ET_value(Num(1))),
                    ET_symbol(Str_x))
  /\ ~CD_contains(env0, Str_x)
  /\ result = Num(2)
  /\ CD_retrieve(dict, Str_x) = Num(1)

(***************************************************************************)
(* Further invariants of the dictionary (specification SpecDict).         *)
(***************************************************************************)
SlotIndices(d) == 0..(d.capacity - 1)

\* C26: in every reachable state num_stored is the number of in-use slots
\* and num_deleted the number of Deleted slots, so the two assertions of
\* CD_size hold, and every in-use slot holds a key.
C26_CountersMatchSlots ==
  /\ CD_size_asserts(dict)
  /\ \A i \in SlotIndices(dict) :
       dict.slot[i].status = "SLOT_IN_USE" => dict.slot[i].key \in DictKeys

\* after a rehash to 16 slots, three entries are stored and two slots are
\* Deleted
C26_Witness ==
  /\ pc = "dict"
  /\ dict.capacity = 2 * DEFAULT_DICT_CAPACITY
  /\ dict.num_stored = 3
  /\ dict.num_deleted = 2
  /\ SlotsOfStatus(dict, "SLOT_DELETED") = 2

\* the in-use slots that hold key
SlotsOfKey(d, key) ==
  {i \in SlotIndices(d) : d.slot[i].status = "SLOT_IN_USE" /\ d.slot[i].key = key}

\* a store of a key that is present
StoreOfPresentKey == last'.op = "store" /\ ~isnan(last'.value) /\ CD_contains(dict, last'.key)

C28_Step ==
  /\ \A k \in DictKeys : Cardinality(SlotsOfKey(dict', k)) <= 1
  /\ pc' = "dict" => dict'.num_stored = Cardinality({k \in DictKeys : SlotsOfKey(dict', k) # {}})
  /\ StoreOfPresentKey =>
       \E i \in SlotsOfKey(dict, last'.key) :
         dict' = [dict EXCEPT !.slot[i].value = last'.value]

\* C28: no key is stored twice: at most one in-use slot holds a given key,
\* num_stored counts the keys that have a slot, and a store of a present key
\* changes the value of its slot and nothing else.
C28_NoKeyStoredTwice ==
  (\A k \in DictKeys : Cardinality(SlotsOfKey(dict, k)) <= 1) /\ [][C28_Step]_vars

\* a present key was stored again while a Deleted slot lay on its probe
\* sequence before its own slot
C28_Witness ==
  /\ last.op = "store"
  /\ ~last.absent
  /\ ~isnan(last.value)
  /\ \E i \in SlotsOfKey(dict, last.key) :
       \E j \in SlotIndices(dict) :
         /\ dict.slot[j].status = "SLOT_DELETED"
         /\ ProbeDistance(dict, last.key, j) < ProbeDistance(dict, last.key, i)

\* a key no call stores
AbsentKey == Str_b

\* C29: CD_store terminates: in every reachable state stored + deleted is
\* below the capacity and a slot is Unused, so the probe loop of a store
\* stops, at the slot of the key when it is present and at an Unused slot
\* when it is absent.
C29_StoreTerminates ==
  /\ dict.num_stored + dict.num_deleted < dict.capacity
  /\ \E i \in SlotIndices(dict) : dict.slot[i].status = "SLOT_UNUSED"
  /\ \A k \in DictKeys \cup {AbsentKey} :
       LET hash == StoreProbe(dict, k, CD_hash(k, dict.capacity), 0)
       IN /\ hash # -1
          /\ IF CD_contains(dict, k) THEN hash \in SlotsOfKey(dict, k)
             ELSE dict.slot[hash].status = "SLOT_UNUSED"

\* four slots of eight are in use or Deleted, the most the threshold lets
\* stand, and the probe of a present key steps over a Deleted slot
C29_Witness ==
  /\ pc = "dict"
  /\ dict.capacity = DEFAULT_DICT_CAPACITY
  /\ dict.num_stored + dict.num_deleted = 4
  /\ dict.num_deleted >= 1
  /\ \E k \in DictKeys :
       /\ CD_contains(dict, k)
       /\ dict.slot[CD_hash(k, dict.capacity)].status = "SLOT_DELETED"

(***************************************************************************)
(* The two grammar positions of "=" (specification Spec).                  *)
(***************************************************************************)
\* the tokens of seq from the i-th on
Suffix(seq, i) == SubSeq(seq, i, Len(seq))

\* the "=" loop of assignment, called on toks, finds "=" after its additive
\* expression, consumes it and builds an Assign node
AssignmentLoopEntered(toks) ==
  additive(toks, NoMessage).tree # NULL
  /\ TOK_next_type(additive(toks, NoMessage).tokens) = "TOK_EQUAL"

\* the "=" branch of exponential, called on toks, finds "=" after its
\* primary expression
ExponentialBranchEntered(toks) ==
  primary(toks, NoMessage).tree # NULL
  /\ TOK_next_type(primary(toks, NoMessage).tokens) = "TOK_EQUAL"

\* some call of assignment made while parsing seq enters its "=" loop; every
\* call of a grammar rule is made on a suffix of seq
AssignmentLoopReached(seq) == \E i \in 1..Len(seq) : AssignmentLoopEntered(Suffix(seq, i))

ExponentialBranchReached(seq) == \E i \in 1..Len(seq) : ExponentialBranchEntered(Suffix(seq, i))

\* the token lists of up to four tokens, and the examples
ShortLists == ExampleSeqs \cup UNION {[1..n -> Alphabet] : n \in 1..(MaxLen - 1)}

====
